---- MODULE Spec2Model ----
(***************************************************************************)
(* A model of the rewrite-suggestion server (src/server/main.py): the      *)
(* Content MathML parser, canonical node addressing (canonical string,     *)
(* djb2 id, lookup by id), the adapter to the algebra engine, the rule     *)
(* catalog with its gate, the algorithmic generators and the               *)
(* /rewriteOptions handler.                                                *)
(*                                                                         *)
(* Strings are sequences of Unicode code points, so that strip, lower,     *)
(* endswith, the canonical grammar and the hash are computed character by  *)
(* character as the code computes them.  Python's None is the record None. *)
(***************************************************************************)
EXTENDS Integers, Sequences, FiniteSets, TLC

VARIABLES
    tree,          \* SpecAddr: the tree the addressing functions are called on
    hashseed,      \* the hash seed of the running process; drawn again at a restart
    ncalls,        \* number of calls made so far, over all processes
    canon,         \* result of the last _canonical(tree) call, or None
    idtree,        \* result of the last _with_ids(tree) call, or None
    probe,         \* node id given to the last _find_node_by_id call
    found,         \* its result
    seen,          \* every result observed for `tree`, over calls and restarts
    LOADED_RULES,  \* Spec: the rule catalog, loaded when the process starts
    request,       \* the body of the last request to /rewriteOptions, or None
    response,      \* the response to it
    gen_in,        \* the arguments _generate_rewrite_options was last called with, or None
    gen_out,       \* the options it returned
    rules_dir,     \* the rules directory of the installation
    handlers       \* SpecConc: the frame of each rewrite_options call in flight

addrVars == <<tree, hashseed, ncalls, canon, idtree, probe, found, seen>>
srvVars == <<LOADED_RULES, request, response, gen_in, gen_out, rules_dir>>
concVars == <<handlers>>
vars == <<addrVars, srvVars, concVars>>

None == [kind |-> "None"]
\* LOADED_RULES while no process runs: a list that is no catalog
NotLoaded == <<None>>

-----------------------------------------------------------------------------
(* Bounds *)
MaxCalls == 2      \* calls made in one behaviour
MaxSeed == 1       \* hash seeds are 0..MaxSeed
MaxFiles == 2      \* rule files a directory holds when the catalog alone is examined
MaxRequests == 2   \* requests to /rewriteOptions in flight at one time

\* The frame of a handler that serves no request, and a process that serves none
IdleHandler ==
    [ pc |-> "idle", body |-> None, ast |-> None, expr |-> None, assumptions |-> None,
      options |-> <<>>, chosen |-> <<>>, response |-> None ]
NoHandlers == [i \in 1..MaxRequests |-> IdleHandler]

-----------------------------------------------------------------------------
(* String primitives (Python str methods on code-point sequences) *)

IsSpace(c) == c \in {32, 9, 10, 13}

RECURSIVE LStrip(_)
LStrip(s) == IF s # <<>> /\ IsSpace(Head(s)) THEN LStrip(Tail(s)) ELSE s

RECURSIVE RStrip(_)
RStrip(s) ==
    IF s # <<>> /\ IsSpace(s[Len(s)]) THEN RStrip(SubSeq(s, 1, Len(s) - 1)) ELSE s

\* str.strip()
Strip(s) == RStrip(LStrip(s))

\* str.lower(), on the ASCII letters
Lower(s) == [i \in DOMAIN s |-> IF s[i] \in 65..90 THEN s[i] + 32 ELSE s[i]]

\* str.endswith(suffix)
EndsWith(s, suffix) ==
    /\ Len(suffix) <= Len(s)
    /\ SubSeq(s, Len(s) - Len(suffix) + 1, Len(s)) = suffix

\* sep.join(parts)
RECURSIVE Join(_, _)
Join(parts, sep) ==
    IF parts = <<>> THEN <<>>
    ELSE IF Len(parts) = 1 THEN parts[1]
    ELSE parts[1] \o sep \o Join(Tail(parts), sep)

\* Element tags, as code-point strings.
Tag ==
    [ ci |-> <<99, 105>>,   \* "ci"
      cn |-> <<99, 110>>,   \* "cn"
      apply |-> <<97, 112, 112, 108, 121>>,   \* "apply"
      math |-> <<109, 97, 116, 104>>,   \* "math"
      power |-> <<112, 111, 119, 101, 114>>,   \* "power"
      plus |-> <<112, 108, 117, 115>>,   \* "plus"
      times |-> <<116, 105, 109, 101, 115>>,   \* "times"
      sin |-> <<115, 105, 110>>,   \* "sin"
      cos |-> <<99, 111, 115>>,   \* "cos"
      tan |-> <<116, 97, 110>>,   \* "tan"
      sec |-> <<115, 101, 99>>,   \* "sec"
      csc |-> <<99, 115, 99>>,   \* "csc"
      cot |-> <<99, 111, 116>>,   \* "cot"
      ln |-> <<108, 110>>,   \* "ln"
      diff |-> <<100, 105, 102, 102>>,   \* "diff"
      semantics |-> <<115, 101, 109, 97, 110, 116, 105, 99, 115>>,   \* "semantics"
      arcsin |-> <<97, 114, 99, 115, 105, 110>>,   \* "arcsin"
      foo |-> <<102, 111, 111>> ]   \* "foo"

\* Function names.
Fn ==
    [ sin |-> <<115, 105, 110>>,   \* "sin"
      cos |-> <<99, 111, 115>>,   \* "cos"
      tan |-> <<116, 97, 110>>,   \* "tan"
      sec |-> <<115, 101, 99>>,   \* "sec"
      csc |-> <<99, 115, 99>>,   \* "csc"
      cot |-> <<99, 111, 116>>,   \* "cot"
      log |-> <<108, 111, 103>>,   \* "log"
      exp |-> <<101, 120, 112>>,   \* "exp"
      abs |-> <<97, 98, 115>>,   \* "abs"
      absolutevalue |-> <<97, 98, 115, 111, 108, 117, 116, 101, 118, 97, 108, 117, 101>>,   \* "absolutevalue"
      conjugate |-> <<99, 111, 110, 106, 117, 103, 97, 116, 101>>,   \* "conjugate"
      conj |-> <<99, 111, 110, 106>>,   \* "conj"
      times |-> <<116, 105, 109, 101, 115>>,   \* "times"
      f |-> <<102>>,   \* "f"
      x |-> <<120>> ]   \* "x"

\* Literal pieces of the canonical grammar.
Canon ==
    [ ident |-> <<105, 100, 101, 110, 116, 58>>,   \* "ident:"
      number |-> <<110, 117, 109, 98, 101, 114, 58>>,   \* "number:"
      power |-> <<112, 111, 119, 101, 114, 40>>,   \* "power("
      add |-> <<97, 100, 100, 40>>,   \* "add("
      call |-> <<99, 97, 108, 108, 58>>,   \* "call:"
      diff |-> <<100, 105, 102, 102, 40>>,   \* "diff("
      unknown |-> <<117, 110, 107, 110, 111, 119, 110>>,   \* "unknown"
      comma |-> <<44>>,   \* ","
      lpar |-> <<40>>,   \* "("
      rpar |-> <<41>> ]   \* ")"

\* Error message texts.
Msg ==
    [ empty_apply |-> <<101, 109, 112, 116, 121, 32, 97, 112, 112, 108, 121>>,   \* "empty apply"
      unsupported_operator |-> <<85, 110, 115, 117, 112, 112, 111, 114, 116, 101, 100, 32, 111, 112, 101, 114, 97, 116, 111, 114, 58, 32>>,   \* "Unsupported operator: "
      unsupported_tag |-> <<85, 110, 115, 117, 112, 112, 111, 114, 116, 101, 100, 32, 116, 97, 103, 58, 32>>,   \* "Unsupported tag: "
      diff_form |-> <<85, 110, 115, 117, 112, 112, 111, 114, 116, 101, 100, 32, 111, 112, 101, 114, 97, 116, 111, 114, 58, 32, 100, 105, 102, 102, 32, 102, 111, 114, 109>>,   \* "Unsupported operator: diff form"
      invalid |-> <<73, 110, 118, 97, 108, 105, 100, 32, 67, 111, 110, 116, 101, 110, 116, 32, 77, 97, 116, 104, 77, 76, 58, 32>>,   \* "Invalid Content MathML: "
      xml |-> <<88, 77, 76, 83, 121, 110, 116, 97, 120, 69, 114, 114, 111, 114>> ]   \* "XMLSyntaxError"

\* Identifier names, numerals, node ids and assumption tags used as inputs.
Nm ==
    [ x |-> <<120>>,   \* "x"
      a |-> <<97>>,   \* "a"
      b |-> <<98>>,   \* "b"
      z |-> <<122>>,   \* "z"
      c |-> <<99>>,   \* "c"
      i |-> <<105>>,   \* "i"
      I |-> <<73>>,   \* "I"
      theta |-> <<116, 104, 101, 116, 97>>,   \* "theta"
      ab |-> <<97, 98>>,   \* "ab"
      bA |-> <<98, 65>>,   \* "bA"
      a_comma |-> <<97, 44, 105, 100, 101, 110, 116, 58, 97>>,   \* "a,ident:a"
      a_lt_b |-> <<97, 60, 98>>,   \* "a<b"
      n0 |-> <<48>>,   \* "0"
      n1 |-> <<49>>,   \* "1"
      n2 |-> <<50>>,   \* "2"
      n5 |-> <<53>>,   \* "5"
      n6 |-> <<54>>,   \* "6"
      m1 |-> <<45, 49>>,   \* "-1"
      root |-> <<114, 111, 111, 116>>,   \* "root"
      missing |-> <<100, 111, 101, 115, 45, 110, 111, 116, 45, 101, 120, 105, 115, 116>>,   \* "does-not-exist"
      real |-> <<114, 101, 97, 108>>,   \* "real"
      positive |-> <<112, 111, 115, 105, 116, 105, 118, 101>>,   \* "positive"
      Real |-> <<82, 101, 97, 108>>,   \* "Real"
      complex |-> <<99, 111, 109, 112, 108, 101, 120>>,   \* "complex"
      thetaU |-> <<952>>,   \* Greek small theta, U+03B8 (UTF-8: CE B8)
      blank |-> <<32>> ]   \* " "

-----------------------------------------------------------------------------
(* Content MathML documents.  An element is its tag, its text and its     *)
(* child elements; a request's contentMathML is either not well-formed or *)
(* a sequence of top-level elements.                                       *)

El(tag, text, kids) == [tag |-> tag, text |-> text, kids |-> kids]
Ci(name) == El(Tag.ci, name, <<>>)
Cn(value) == El(Tag.cn, value, <<>>)
Op(tag) == El(tag, <<>>, <<>>)
Apply(head, args) == El(Tag.apply, <<>>, <<head>> \o args)
Math(e) == El(Tag.math, <<>>, <<e>>)

Doc(roots) == [wf |-> TRUE, roots |-> roots]
Malformed == [wf |-> FALSE, roots |-> <<>>]

\* Results of operations that may raise: a value, or the exception's message.
Ok(v) == [ok |-> TRUE, val |-> v, err |-> <<>>]
Err(m) == [ok |-> FALSE, val |-> None, err |-> m]

\* etree.fromstring(content), retried inside a <math> wrapper when it fails.
\* A single top-level element parses as it is; anything else that is
\* well-formed inside the wrapper becomes the wrapper's children.
parse_xml(content) ==
    IF ~content.wf THEN Err(Msg.xml)
    ELSE IF Len(content.roots) = 1 THEN Ok(content.roots[1])
    ELSE Ok(El(Tag.math, <<>>, content.roots))

\* node = root[0] if root.tag.endswith("math") and len(root) > 0 else root
root_node(root) ==
    IF EndsWith(root.tag, Tag.math) /\ Len(root.kids) > 0 THEN root.kids[1] ELSE root

\* The first failing result of a sequence of results, as the exception that
\* leaves a list comprehension.
FirstErr(rs) == rs[CHOOSE i \in DOMAIN rs : ~rs[i].ok /\ \A j \in 1..(i - 1) : rs[j].ok]

unary_call(func, args) == Ok([kind |-> "call", func |-> func, arg |-> args[1]])

\* The dispatch with a derivative taken only with its variable first
apply_to_ast_var_first(head, args) ==
    LET htag == head.tag
        n == Len(args)
    IN  IF EndsWith(htag, Tag.power) /\ n = 2
            THEN Ok([kind |-> "power", base |-> args[1], exponent |-> args[2]])
        ELSE IF EndsWith(htag, Tag.plus)
            THEN Ok([kind |-> "add", terms |-> args])
        ELSE IF EndsWith(htag, Tag.times)
            THEN Ok([kind |-> "call", func |-> Fn.times,
                     arg |-> [kind |-> "add", terms |-> args]])
        ELSE IF EndsWith(htag, Tag.sin) /\ n = 1 THEN unary_call(Fn.sin, args)
        ELSE IF EndsWith(htag, Tag.cos) /\ n = 1 THEN unary_call(Fn.cos, args)
        ELSE IF EndsWith(htag, Tag.tan) /\ n = 1 THEN unary_call(Fn.tan, args)
        ELSE IF EndsWith(htag, Tag.sec) /\ n = 1 THEN unary_call(Fn.sec, args)
        ELSE IF EndsWith(htag, Tag.csc) /\ n = 1 THEN unary_call(Fn.csc, args)
        ELSE IF EndsWith(htag, Tag.cot) /\ n = 1 THEN unary_call(Fn.cot, args)
        ELSE IF EndsWith(htag, Tag.ln) /\ n = 1 THEN unary_call(Fn.log, args)
        ELSE IF EndsWith(htag, Tag.diff)
            THEN IF n = 2 /\ args[1].kind = "ident"
                     THEN Ok([kind |-> "diff", var |-> args[1], arg |-> args[2]])
                 ELSE Err(Msg.diff_form)
        ELSE IF EndsWith(htag, Tag.ci) /\ n > 0
            THEN unary_call(Strip(IF head.text = <<>> THEN Fn.f ELSE head.text), args)
        ELSE Err(Msg.unsupported_operator \o htag)

\* The operator dispatch of to_ast for <apply>, once the arguments parsed.
apply_to_ast(head, args) ==
    LET htag == head.tag
        n == Len(args)
    IN  IF EndsWith(htag, Tag.power) /\ n = 2
            THEN Ok([kind |-> "power", base |-> args[1], exponent |-> args[2]])
        ELSE IF EndsWith(htag, Tag.plus)
            THEN Ok([kind |-> "add", terms |-> args])
        ELSE IF EndsWith(htag, Tag.times)
            THEN Ok([kind |-> "call", func |-> Fn.times,
                     arg |-> [kind |-> "add", terms |-> args]])
        ELSE IF EndsWith(htag, Tag.sin) /\ n = 1 THEN unary_call(Fn.sin, args)
        ELSE IF EndsWith(htag, Tag.cos) /\ n = 1 THEN unary_call(Fn.cos, args)
        ELSE IF EndsWith(htag, Tag.tan) /\ n = 1 THEN unary_call(Fn.tan, args)
        ELSE IF EndsWith(htag, Tag.sec) /\ n = 1 THEN unary_call(Fn.sec, args)
        ELSE IF EndsWith(htag, Tag.csc) /\ n = 1 THEN unary_call(Fn.csc, args)
        ELSE IF EndsWith(htag, Tag.cot) /\ n = 1 THEN unary_call(Fn.cot, args)
        ELSE IF EndsWith(htag, Tag.ln) /\ n = 1 THEN unary_call(Fn.log, args)
        ELSE IF EndsWith(htag, Tag.diff)
            THEN IF n = 2 /\ args[1].kind = "ident"
                     THEN Ok([kind |-> "diff", var |-> args[1], arg |-> args[2]])
                 ELSE IF n = 2 /\ args[2].kind = "ident"
                     THEN Ok([kind |-> "diff", var |-> args[2], arg |-> args[1]])
                 ELSE Err(Msg.diff_form)
        ELSE IF EndsWith(htag, Tag.ci) /\ n > 0
            THEN unary_call(Strip(IF head.text = <<>> THEN Fn.f ELSE head.text), args)
        ELSE Err(Msg.unsupported_operator \o htag)

\* An unknown element taken for its first child whenever it has children
RECURSIVE to_ast_first_child(_)
to_ast_first_child(n) ==
    IF EndsWith(n.tag, Tag.ci)
        THEN Ok([kind |-> "ident",
                 name |-> IF Strip(n.text) = <<>> THEN Fn.x ELSE Strip(n.text)])
    ELSE IF EndsWith(n.tag, Tag.cn)
        THEN Ok([kind |-> "number",
                 value |-> Strip(IF n.text = <<>> THEN Nm.n0 ELSE n.text)])
    ELSE IF EndsWith(n.tag, Tag.apply)
        THEN IF Len(n.kids) = 0 THEN Err(Msg.empty_apply)
             ELSE LET rs == [i \in 1..(Len(n.kids) - 1) |-> to_ast_first_child(n.kids[i + 1])]
                  IN  IF \E i \in DOMAIN rs : ~rs[i].ok THEN FirstErr(rs)
                      ELSE apply_to_ast(n.kids[1], [i \in DOMAIN rs |-> rs[i].val])
    ELSE IF Len(n.kids) >= 1 THEN to_ast_first_child(n.kids[1])
    ELSE Err(Msg.unsupported_tag \o n.tag)

RECURSIVE to_ast(_)
to_ast(n) ==
    IF EndsWith(n.tag, Tag.ci)
        THEN Ok([kind |-> "ident",
                 name |-> IF Strip(n.text) = <<>> THEN Fn.x ELSE Strip(n.text)])
    ELSE IF EndsWith(n.tag, Tag.cn)
        THEN Ok([kind |-> "number",
                 value |-> Strip(IF n.text = <<>> THEN Nm.n0 ELSE n.text)])
    ELSE IF EndsWith(n.tag, Tag.apply)
        THEN IF Len(n.kids) = 0 THEN Err(Msg.empty_apply)
             ELSE LET rs == [i \in 1..(Len(n.kids) - 1) |-> to_ast(n.kids[i + 1])]
                  IN  IF \E i \in DOMAIN rs : ~rs[i].ok THEN FirstErr(rs)
                      ELSE apply_to_ast(n.kids[1], [i \in DOMAIN rs |-> rs[i].val])
    ELSE IF Len(n.kids) = 1 THEN to_ast(n.kids[1])
    ELSE Err(Msg.unsupported_tag \o n.tag)

_parse_content_mathml_to_ast(content) ==
    LET x == parse_xml(content)
    IN  IF ~x.ok THEN x ELSE to_ast(root_node(x.val))

-----------------------------------------------------------------------------
(* Canonical addressing *)

\* Lexicographic order on strings, and insertion of a string into a sorted
\* sequence of strings
RECURSIVE StrLess(_, _)
StrLess(a, b) ==
    IF b = <<>> THEN FALSE
    ELSE IF a = <<>> THEN TRUE
    ELSE IF Head(a) # Head(b) THEN Head(a) < Head(b)
    ELSE StrLess(Tail(a), Tail(b))

RECURSIVE InsertSorted(_, _)
InsertSorted(x, sorted) ==
    IF sorted = <<>> THEN <<x>>
    ELSE IF StrLess(x, Head(sorted)) THEN <<x>> \o sorted
    ELSE <<Head(sorted)>> \o InsertSorted(x, Tail(sorted))

RECURSIVE SortStrs(_)
SortStrs(parts) == IF parts = <<>> THEN <<>> ELSE InsertSorted(Head(parts), SortStrs(Tail(parts)))

\* Mutant: the terms are joined in sorted order, not in the given one.
canonical_terms_sorted(parts) == Join(SortStrs(parts), Canon.comma)

\* ','.join(_canonical(t) for t in ast['terms'])
canonical_terms(parts) == Join(parts, Canon.comma)

RECURSIVE _canonical(_)
_canonical(ast) ==
    LET k == ast.kind
    IN  IF k = "ident" THEN Canon.ident \o ast.name
        ELSE IF k = "number" THEN Canon.number \o ast.value
        ELSE IF k = "power"
            THEN Canon.power \o _canonical(ast.base) \o Canon.comma
                 \o _canonical(ast.exponent) \o Canon.rpar
        ELSE IF k = "add"
            THEN Canon.add
                 \o canonical_terms([i \in DOMAIN ast.terms |-> _canonical(ast.terms[i])])
                 \o Canon.rpar
        ELSE IF k = "call"
            THEN Canon.call \o ast.func \o Canon.lpar \o _canonical(ast.arg) \o Canon.rpar
        ELSE IF k = "diff"
            THEN Canon.diff \o _canonical(ast.var) \o Canon.comma
                 \o _canonical(ast.arg) \o Canon.rpar
        ELSE Canon.unknown

\* A 32-bit hash value is kept as two 16-bit limbs <<high, low>>: the value
\* is high * 2^16 + low.
Limb == 65536

\* h = 5381
DJB2_INIT == 5381

\* Mutant: h = (h << 5) + ord(ch), the "+ h" forgotten (h * 32 for h * 33).
djb2_shift_only(h, ch) ==
    LET low == (h[2] * 32) + ch
    IN  <<(h[1] * 32) + (low \div Limb), low % Limb>>

\* h = ((h << 5) + h) + ord(ch), before the mask: the high limb is unbounded.
djb2_shift_add(h, ch) ==
    LET low == (h[2] * 32 + h[2]) + ch
    IN  <<(h[1] * 32 + h[1]) + (low \div Limb), low % Limb>>

\* h = h & 0xFFFFFFFF
mask32(h) == <<h[1] % Limb, h[2]>>

djb2_step(h, ch) == mask32(djb2_shift_add(h, ch))

\* The values h takes: h after 0, 1, ..., len(s) characters.
RECURSIVE djb2_trace(_, _)
djb2_trace(h, s) ==
    IF s = <<>> THEN <<h>> ELSE <<h>> \o djb2_trace(djb2_step(h, Head(s)), Tail(s))

\* Mutant: the hash starts from a value salted per process, as Python's
\* built-in hash() does.
djb2_salted(s) == LET t == djb2_trace(<<0, DJB2_INIT + hashseed>>, s) IN t[Len(t)]

djb2(s) == LET t == djb2_trace(<<0, DJB2_INIT>>, s) IN t[Len(t)]

HexDigit(d) == IF d < 10 THEN 48 + d ELSE 87 + d

\* The hexadecimal digits of n, most significant first, without leading zeros
\* ("0" for 0).
RECURSIVE hex_nat(_)
hex_nat(n) == IF n < 16 THEN <<HexDigit(n)>> ELSE hex_nat(n \div 16) \o <<HexDigit(n % 16)>>

\* The low limb below a non-zero high limb: exactly four digits.
hex_low4(n) ==
    <<HexDigit(n \div 4096), HexDigit((n \div 256) % 16),
      HexDigit((n \div 16) % 16), HexDigit(n % 16)>>

\* format(h, 'x')
format_x(h) == IF h[1] = 0 THEN hex_nat(h[2]) ELSE hex_nat(h[1]) \o hex_low4(h[2])

_djb2_hex(s) == format_x(djb2(s))

\* Mutant: a leaf is returned as it came, without an id.
with_ids_leaf_no_id(ast) == ast

\* ident and number: node = dict(ast); node["id"] = ...
with_ids_leaf(ast) ==
    IF ast.kind = "ident"
        THEN [kind |-> "ident", name |-> ast.name, id |-> _djb2_hex(_canonical(ast))]
        ELSE [kind |-> "number", value |-> ast.value, id |-> _djb2_hex(_canonical(ast))]

\* node["id"] = _djb2_hex(_canonical(node)), on a node whose children carry ids
SetId(node) == [id |-> _djb2_hex(_canonical(node))] @@ node

RECURSIVE _with_ids(_)
_with_ids(ast) ==
    LET k == ast.kind
    IN  IF k \in {"ident", "number"} THEN with_ids_leaf(ast)
        ELSE IF k = "power"
            THEN LET node == [kind |-> "power", base |-> _with_ids(ast.base),
                              exponent |-> _with_ids(ast.exponent)]
                 IN  SetId(node)
        ELSE IF k = "add"
            THEN LET node == [kind |-> "add",
                              terms |-> [i \in DOMAIN ast.terms |-> _with_ids(ast.terms[i])]]
                 IN  SetId(node)
        ELSE IF k = "call"
            THEN LET node == [kind |-> "call", func |-> ast.func, arg |-> _with_ids(ast.arg)]
                 IN  SetId(node)
        ELSE IF k = "diff"
            THEN LET node == [kind |-> "diff", var |-> _with_ids(ast.var),
                              arg |-> _with_ids(ast.arg)]
                 IN  SetId(node)
        ELSE SetId(ast)

\* Mutant: the later operand wins.
OrElse_second(a, b) == IF b # None THEN b ELSE a

\* Python's `a or b` on Optional[dict]: a node is a non-empty dict, so truthy.
OrElse(a, b) == IF a # None THEN a ELSE b

\* for t in terms: found = _find_node_by_id(t, node_id); if found: return found
RECURSIVE _find_node_by_id(_, _)
RECURSIVE find_in_terms(_, _)
find_in_terms(terms, node_id) ==
    IF terms = <<>> THEN None
    ELSE OrElse(_find_node_by_id(Head(terms), node_id), find_in_terms(Tail(terms), node_id))

_find_node_by_id(ast, node_id) ==
    IF "id" \in DOMAIN ast /\ ast.id = node_id THEN ast
    ELSE LET k == ast.kind
         IN  IF k = "power"
                 THEN OrElse(_find_node_by_id(ast.base, node_id),
                             _find_node_by_id(ast.exponent, node_id))
             ELSE IF k = "add" THEN find_in_terms(ast.terms, node_id)
             ELSE IF k = "call" THEN _find_node_by_id(ast.arg, node_id)
             ELSE IF k = "diff"
                 THEN OrElse(_find_node_by_id(ast.var, node_id),
                             _find_node_by_id(ast.arg, node_id))
             ELSE None

-----------------------------------------------------------------------------
(* The documents requests are drawn from *)

Leaves ==
    { Ci(Nm.x), Ci(Nm.a), Cn(Nm.n2) }

BinaryOps == { Tag.plus, Tag.times, Tag.power }

\* <apply><op/> l1 l2</apply> for every operator and pair of leaves
SmallDocs ==
    { Doc(<<Math(Apply(Op(o), <<l1, l2>>))>>) : o \in BinaryOps, l1 \in Leaves, l2 \in Leaves }

X2 == Apply(Op(Tag.power), <<Ci(Nm.x), Cn(Nm.n2)>>)
SinOf(e) == Apply(Op(Tag.sin), <<e>>)
CallOf(f, e) == Apply(Ci(f), <<e>>)
Times(es) == Apply(Op(Tag.times), es)
Plus(es) == Apply(Op(Tag.plus), es)
ConjExp(i, th) == CallOf(Fn.conjugate, CallOf(Fn.exp, Times(<<Ci(i), th>>)))

GoodDocs ==
    { Doc(<<Math(Ci(Nm.x))>>),
      Doc(<<Cn(Nm.n5)>>),                                            \* a bare fragment
      Doc(<<Math(El(Tag.semantics, <<>>, <<Ci(Nm.a)>>))>>),          \* unknown wrapper, one child
      Doc(<<Math(SinOf(Times(<<Cn(Nm.n2), Ci(Nm.x)>>)))>>),          \* sin(2x)
      Doc(<<Math(Times(<<Cn(Nm.n2), SinOf(Ci(Nm.x)),
                         Apply(Op(Tag.cos), <<Ci(Nm.x)>>)>>))>>),    \* 2 sin(x) cos(x)
      Doc(<<Math(Plus(<<X2, Times(<<Cn(Nm.n6), Ci(Nm.x)>>), Cn(Nm.n5)>>))>>),  \* x^2 + 6x + 5
      Doc(<<Math(Plus(<<X2, Ci(Nm.x)>>))>>),                         \* x^2 + x
      Doc(<<Math(ConjExp(Nm.I, Ci(Nm.theta)))>>),                    \* conjugate(exp(I theta))
      Doc(<<Math(ConjExp(Nm.i, Ci(Nm.theta)))>>),
      Doc(<<Math(ConjExp(Nm.I, X2))>>),                              \* theta is not a variable
      Doc(<<Math(ConjExp(Nm.I, Ci(Nm.x)))>>),
      Doc(<<Math(CallOf(Fn.conjugate, Plus(<<Ci(Nm.a), Ci(Nm.b)>>)))>>),
      Doc(<<Math(CallOf(Fn.conjugate, Times(<<Ci(Nm.a), Ci(Nm.b)>>)))>>),
      Doc(<<Math(Plus(<<CallOf(Fn.conjugate, Ci(Nm.a)), CallOf(Fn.conjugate, Ci(Nm.b))>>))>>),
      Doc(<<Math(Times(<<Ci(Nm.z), CallOf(Fn.conjugate, Ci(Nm.z))>>))>>),
      Doc(<<Math(Plus(<<Ci(Nm.ab), Ci(Nm.bA)>>))>>),                 \* two names with one hash
      Doc(<<Math(Apply(Op(Tag.power), <<Ci(Nm.bA), Ci(Nm.ab)>>))>>),
      Doc(<<Math(Plus(<<Ci(Nm.a), Ci(Nm.a_comma)>>))>>),             \* a name holding a comma
      Doc(<<Math(Plus(<<Ci(Nm.a_comma), Ci(Nm.a)>>))>>),
      Doc(<<Math(Plus(<<Ci(Nm.a), Ci(Nm.b), Ci(Nm.x)>>))>>),
      Doc(<<Math(SinOf(Ci(Nm.thetaU)))>>),
      Doc(<<Math(Apply(Op(Tag.diff), <<Ci(Nm.x), CallOf(Fn.f, Ci(Nm.x))>>))>>),  \* d/dx f(x)
      Doc(<<Math(Apply(Op(Tag.diff), <<SinOf(Ci(Nm.x)), Ci(Nm.x)>>))>>),         \* reversed order
      Doc(<<Math(Apply(Op(Tag.diff), <<Ci(Nm.x), X2>>))>>),
      Doc(<<Math(Apply(Op(Tag.diff), <<Ci(Nm.x), Ci(Nm.a)>>))>>),
      Doc(<<Math(Apply(Op(Tag.diff), <<Ci(Nm.x), Times(<<Ci(Nm.a_lt_b), Ci(Nm.x)>>)>>))>>),
      Doc(<<Math(Apply(Op(Tag.arcsin), <<Ci(Nm.x)>>))>>),
      Doc(<<Math(Apply(Ci(Fn.f), <<Ci(Nm.a), Ci(Nm.b)>>))>>),
      Doc(<<Math(Ci(Nm.blank))>>),
      Doc(<<Math(Cn(Nm.blank))>>) }

BadDocs ==
    { Malformed,
      Doc(<<>>),                                                     \* no element at all
      Doc(<<Math(El(Tag.apply, <<>>, <<>>))>>),                      \* empty apply
      Doc(<<Math(Apply(Op(Tag.foo), <<Ci(Nm.x)>>))>>),               \* unsupported operator
      Doc(<<Math(Apply(Op(Tag.power), <<Ci(Nm.x)>>))>>),             \* power of one argument
      Doc(<<Math(El(Tag.semantics, <<>>, <<Ci(Nm.a), Ci(Nm.b)>>))>>),  \* unknown tag, two children
      Doc(<<Math(Apply(Op(Tag.diff), <<Cn(Nm.n2), Cn(Nm.n5)>>))>>),  \* diff without a variable
      Doc(<<Math(Plus(<<Ci(Nm.x), El(Tag.apply, <<>>, <<>>)>>))>>),  \* failure below the root
      Doc(<<Math(Apply(Ci(Fn.f), <<>>))>>) }                         \* a function of nothing

Docs == SmallDocs \cup GoodDocs \cup BadDocs

\* The trees the parser yields for those documents.
Trees ==
    { _parse_content_mathml_to_ast(d).val :
        d \in { dd \in Docs : _parse_content_mathml_to_ast(dd).ok } }

\* Every node of a tree, the tree itself included.
RECURSIVE SubNodes(_)
SubNodes(t) ==
    {t} \cup
    ( IF t.kind = "power" THEN SubNodes(t.base) \cup SubNodes(t.exponent)
      ELSE IF t.kind = "add" THEN UNION { SubNodes(t.terms[i]) : i \in DOMAIN t.terms }
      ELSE IF t.kind = "call" THEN SubNodes(t.arg)
      ELSE IF t.kind = "diff" THEN SubNodes(t.var) \cup SubNodes(t.arg)
      ELSE {} )

\* The node ids a caller may send for an id-annotated tree: the ids of its nodes, and two
\* that no node has.
ProbeIds(t) ==
    { n.id : n \in { m \in SubNodes(t) : "id" \in DOMAIN m } }
        \cup { Nm.root, Nm.missing }

-----------------------------------------------------------------------------
(* SpecAddr: the addressing functions called on one tree, over any number  *)
(* of calls, calls on other trees in between, and process restarts.        *)

InitAddr ==
    /\ tree \in Trees
    /\ hashseed \in 0..MaxSeed
    /\ ncalls = 0
    /\ canon = None
    /\ idtree = None
    /\ probe = None
    /\ found = None
    /\ seen = {}
    /\ handlers = NoHandlers
    /\ LOADED_RULES = <<>>
    /\ request = None
    /\ response = None
    /\ gen_in = None
    /\ gen_out = None
    /\ rules_dir = [exists |-> FALSE, lines |-> <<>>]

CallCanonical ==
    /\ ncalls < MaxCalls
    /\ canon' = [kind |-> "str", s |-> _canonical(tree)]
    /\ seen' = seen \cup { [fn |-> "_canonical", result |-> canon', seed |-> hashseed] }
    /\ ncalls' = ncalls + 1
    /\ UNCHANGED <<tree, hashseed, idtree, probe, found>>
    /\ UNCHANGED <<srvVars, concVars>>

CallWithIds ==
    /\ ncalls < MaxCalls
    /\ idtree' = _with_ids(tree)
    /\ seen' = seen \cup { [fn |-> "_with_ids", result |-> idtree', seed |-> hashseed] }
    /\ ncalls' = ncalls + 1
    /\ UNCHANGED <<tree, hashseed, canon, probe, found>>
    /\ UNCHANGED <<srvVars, concVars>>

CallFindNodeById ==
    /\ idtree # None
    /\ \E node_id \in ProbeIds(idtree) :
        /\ probe' = [kind |-> "str", s |-> node_id]
        /\ found' = _find_node_by_id(idtree, node_id)
    /\ UNCHANGED <<tree, hashseed, ncalls, canon, idtree, seen>>
    /\ UNCHANGED <<srvVars, concVars>>

\* A call on another tree (another request): its result is returned and
\* nothing of it stays behind.
CallOnOther ==
    /\ ncalls < MaxCalls
    /\ Trees # {tree}
    /\ ncalls' = ncalls + 1
    /\ UNCHANGED <<tree, hashseed, canon, idtree, probe, found, seen>>
    /\ UNCHANGED <<srvVars, concVars>>

\* The process ends and a new one starts: its memory is gone, its hash seed
\* is drawn again.
Restart ==
    /\ ncalls > 0
    /\ hashseed' \in 0..MaxSeed
    /\ canon' = None
    /\ idtree' = None
    /\ probe' = None
    /\ found' = None
    /\ UNCHANGED <<tree, ncalls, seen>>
    /\ UNCHANGED <<srvVars, concVars>>

NextAddr ==
    \/ CallCanonical
    \/ CallWithIds
    \/ CallFindNodeById
    \/ CallOnOther
    \/ Restart

SpecAddr == InitAddr /\ [][NextAddr]_vars

-----------------------------------------------------------------------------
(* The algebra engine (SymPy), as far as the server uses it.  An           *)
(* expression is a tree: Symbol, Integer, Rational, the imaginary unit I,  *)
(* Add, Mul, Pow, an applied function, Derivative, and Wild in patterns.   *)
(* The constructors sp_Add, sp_Mul and sp_Pow evaluate as the engine's     *)
(* do (flattening, number folding, collection of like terms and powers, a  *)
(* canonical argument order); Raw builds a node as written, which is what  *)
(* parsing with evaluate=False keeps.                                      *)

(* The operators of the engine and of the pipeline reach one another       *)
(* through Call: name_(...) stands for name(...).  Every body then occurs *)
(* once in the operator graph TLC builds of an action, however many       *)
(* operators use it.  An argument place an operator lacks is filled by 0. *)
RECURSIVE Call(_, _, _, _, _)
sp_srepr_(e) == Call("sp_srepr", e, 0, 0, 0)
sp_sstr_(e) == Call("sp_sstr", e, 0, 0, 0)
SortExprs_(es) == Call("SortExprs", es, 0, 0, 0)
Flatten_(h, es) == Call("Flatten", h, es, 0, 0)
NumPow_(a, n) == Call("NumPow", a, n, 0, 0)
sp_Add_(args) == Call("sp_Add", args, 0, 0, 0)
sp_Mul_(args) == Call("sp_Mul", args, 0, 0, 0)
sp_Pow_(b, e) == Call("sp_Pow", b, e, 0, 0)
sp_Derivative_(arg, var) == Call("sp_Derivative", arg, var, 0, 0)
sp_conjugate_(arg) == Call("sp_conjugate", arg, 0, 0, 0)
sp_Fn_(f, arg) == Call("sp_Fn", f, arg, 0, 0)
Rebuild_(e, args) == Call("Rebuild", e, args, 0, 0)
sp_xreplace_(e, rule) == Call("sp_xreplace", e, rule, 0, 0)
sp_match_(e, pattern) == Call("sp_match", e, pattern, 0, 0)
match_from_(pattern, e, m) == Call("match_from", pattern, e, m, 0)
_ast_to_sympy_(ast) == Call("_ast_to_sympy", ast, 0, 0, 0)
_sympify_rule_side_(str) == Call("_sympify_rule_side", str, 0, 0, 0)
_build_rule_(left_str, right_str, name, label) == Call("_build_rule", left_str, right_str, name, label)
_parse_rule_line_(line) == Call("_parse_rule_line", line, 0, 0, 0)
_load_rewrite_rules_from_dir_(dir) == Call("_load_rewrite_rules_from_dir", dir, 0, 0, 0)
build_(e) == Call("build", e, 0, 0, 0)
_sympy_to_content_mathml_basic_(e) == Call("_sympy_to_content_mathml_basic", e, 0, 0, 0)
pres_basic_inner_(e) == Call("pres_basic_inner", e, 0, 0, 0)
pres_basic_(e) == Call("pres_basic", e, 0, 0, 0)
_sympy_to_mathml_strings_(e) == Call("_sympy_to_mathml_strings", e, 0, 0, 0)
_rule_allowed_(rule, match_map, assumptions) == Call("_rule_allowed", rule, match_map, assumptions, 0)
_apply_mapping_(template, wilds, match_map) == Call("_apply_mapping", template, wilds, match_map, 0)
Evaluated_(e) == Call("Evaluated", e, 0, 0, 0)
sp_simplify_(e) == Call("sp_simplify", e, 0, 0, 0)
forward_options_(r, expr, assumptions) == Call("forward_options", r, expr, assumptions, 0)
reverse_options_(r, expr, assumptions) == Call("reverse_options", r, expr, assumptions, 0)
_generate_options_from_loaded_rules_(rules, expr, assumptions) == Call("_generate_options_from_loaded_rules", rules, expr, assumptions, 0)
IsPolynomial_(e, var) == Call("IsPolynomial", e, var, 0, 0)
Coefficients_(e, var) == Call("Coefficients", e, var, 0, 0)
complete_square_options_(expr) == Call("complete_square_options", expr, 0, 0, 0)
conjugate_options_(expr) == Call("conjugate_options", expr, 0, 0, 0)
diff_(e, x) == Call("diff", e, x, 0, 0)
doit_(expr) == Call("doit", expr, 0, 0, 0)
sp_expand_trig_(e) == Call("sp_expand_trig", e, 0, 0, 0)
derivative_options_(expr) == Call("derivative_options", expr, 0, 0, 0)
dedup_(options, chosen) == Call("dedup", options, chosen, 0, 0)
_generate_rewrite_options_(rules, expr, assumptions) == Call("_generate_rewrite_options", rules, expr, assumptions, 0)
rewrite_options_(rules, req) == Call("rewrite_options", rules, req, 0, 0)
located_target_(ast, node_id) == Call("located_target", ast, node_id, 0, 0)
options_before_dedup_(rules, expr, assumptions) == Call("options_before_dedup", rules, expr, assumptions, 0)
free_symbols_(e) == Call("free_symbols", e, 0, 0, 0)
sp_div_(a, b) == Call("sp_div", a, b, 0, 0)
sp_sub_(a, b) == Call("sp_sub", a, b, 0, 0)
sp_neg_(e) == Call("sp_neg", e, 0, 0, 0)
Targets_ == Call("Targets", 0, 0, 0, 0)
Fn_ == Call("Fn", 0, 0, 0, 0)
Canon_ == Call("Canon", 0, 0, 0, 0)
Xml_ == Call("Xml", 0, 0, 0, 0)
Nm_ == Call("Nm", 0, 0, 0, 0)
RuleText_ == Call("RuleText", 0, 0, 0, 0)
Tag_ == Call("Tag", 0, 0, 0, 0)
RuleNm_ == Call("RuleNm", 0, 0, 0, 0)
Cls_ == Call("Cls", 0, 0, 0, 0)
Repr_ == Call("Repr", 0, 0, 0, 0)
Msg_ == Call("Msg", 0, 0, 0, 0)
Label_ == Call("Label", 0, 0, 0, 0)
RuleFile_ == Call("RuleFile", 0, 0, 0, 0)
_canonical_(ast) == Call("_canonical", ast, 0, 0, 0)
_with_ids_(ast) == Call("_with_ids", ast, 0, 0, 0)
_find_node_by_id_(ast, node_id) == Call("_find_node_by_id", ast, node_id, 0, 0)
_parse_content_mathml_to_ast_(content) == Call("_parse_content_mathml_to_ast", content, 0, 0, 0)
_djb2_hex_(s) == Call("_djb2_hex", s, 0, 0, 0)
OccursAt_(str, sub, i) == Call("OccursAt", str, sub, i, 0)
Contains_(str, sub) == Call("Contains", str, sub, 0, 0)
FindFirst_(str, sub) == Call("FindFirst", str, sub, 0, 0)
SplitOnce_(str, sep) == Call("SplitOnce", str, sep, 0, 0)
Split_(str, sep) == Call("Split", str, sep, 0, 0)
Distinct_(es) == Call("Distinct", es, 0, 0, 0)
Num_(p, q) == Call("Num", p, q, 0, 0)
NonNumbers_(es) == Call("NonNumbers", es, 0, 0, 0)
Numbers_(es) == Call("Numbers", es, 0, 0, 0)
CoeffsOf_(es, r) == Call("CoeffsOf", es, r, 0, 0)
ExpsOf_(es, b) == Call("ExpsOf", es, b, 0, 0)
EndsWith_(s, suffix) == Call("EndsWith", s, suffix, 0, 0)
Strip_(s) == Call("Strip", s, 0, 0, 0)
Join_(parts, sep) == Call("Join", parts, sep, 0, 0)
NumSum_(es) == Call("NumSum", es, 0, 0, 0)
NumProd_(es) == Call("NumProd", es, 0, 0, 0)
RestOf_(t) == Call("RestOf", t, 0, 0, 0)

\* Literal pieces of the engine's srepr and sstr printers.
Repr ==
    [ Symbol |-> <<83, 121, 109, 98, 111, 108, 40, 39>>,   \* "Symbol('"
      Wild |-> <<87, 105, 108, 100, 40, 39>>,   \* "Wild('"
      quote_close |-> <<39, 41>>,   \* "')"
      Integer |-> <<73, 110, 116, 101, 103, 101, 114, 40>>,   \* "Integer("
      Rational |-> <<82, 97, 116, 105, 111, 110, 97, 108, 40>>,   \* "Rational("
      I |-> <<73>>,   \* "I"
      Add |-> <<65, 100, 100, 40>>,   \* "Add("
      Mul |-> <<77, 117, 108, 40>>,   \* "Mul("
      Pow |-> <<80, 111, 119, 40>>,   \* "Pow("
      Derivative |-> <<68, 101, 114, 105, 118, 97, 116, 105, 118, 101, 40>>,   \* "Derivative("
      Tuple |-> <<84, 117, 112, 108, 101, 40>>,   \* "Tuple("
      Function |-> <<70, 117, 110, 99, 116, 105, 111, 110, 40, 39>>,   \* "Function('"
      fn_open |-> <<39, 41, 40>>,   \* "')("
      sep |-> <<44, 32>>,   \* ", "
      open |-> <<40>>,   \* "("
      close |-> <<41>>,   \* ")"
      minus |-> <<45>>, minus_sp |-> <<32, 45, 32>>,   \* "-"
      slash |-> <<47>>,   \* "/"
      plus |-> <<32, 43, 32>>,   \* " + "
      star |-> <<42>>,   \* "*"
      pow |-> <<42, 42>> ]   \* "**"

\* Rule names, wildcard names and option ids.
RuleNm ==
    [ trig_double_angle_sin |-> <<116, 114, 105, 103, 95, 100, 111, 117, 98, 108, 101, 95, 97, 110, 103, 108, 101, 95, 115, 105, 110>>,   \* "trig_double_angle_sin"
      combine_like_terms_add |-> <<99, 111, 109, 98, 105, 110, 101, 95, 108, 105, 107, 101, 95, 116, 101, 114, 109, 115, 95, 97, 100, 100>>,   \* "combine_like_terms_add"
      conjugate_exp_i_theta |-> <<99, 111, 110, 106, 117, 103, 97, 116, 101, 95, 101, 120, 112, 95, 105, 95, 116, 104, 101, 116, 97>>,   \* "conjugate_exp_i_theta"
      conjugate_linearity |-> <<99, 111, 110, 106, 117, 103, 97, 116, 101, 95, 108, 105, 110, 101, 97, 114, 105, 116, 121>>,   \* "conjugate_linearity"
      conjugate_multiplicative |-> <<99, 111, 110, 106, 117, 103, 97, 116, 101, 95, 109, 117, 108, 116, 105, 112, 108, 105, 99, 97, 116, 105, 118, 101>>,   \* "conjugate_multiplicative"
      modulus_square |-> <<109, 111, 100, 117, 108, 117, 115, 95, 115, 113, 117, 97, 114, 101>>,   \* "modulus_square"
      trig_identity_sin2 |-> <<116, 114, 105, 103, 95, 105, 100, 101, 110, 116, 105, 116, 121, 95, 115, 105, 110, 50>>,   \* "trig_identity_sin2"
      complete_square |-> <<99, 111, 109, 112, 108, 101, 116, 101, 95, 115, 113, 117, 97, 114, 101>>,   \* "complete_square"
      differentiate |-> <<100, 105, 102, 102, 101, 114, 101, 110, 116, 105, 97, 116, 101>>,   \* "differentiate"
      theta |-> <<116, 104, 101, 116, 97>>,   \* "theta"
      x |-> <<120>>,   \* "x"
      fwd |-> <<95, 102, 111, 114, 119, 97, 114, 100>>,   \* "_forward"
      rev |-> <<95, 114, 101, 118, 101, 114, 115, 101>>,   \* "_reverse"
      complete_square_auto |-> <<99, 111, 109, 112, 108, 101, 116, 101, 95, 115, 113, 117, 97, 114, 101, 95, 97, 117, 116, 111>>,   \* "complete_square_auto"
      conjugate_linearity_auto |-> <<99, 111, 110, 106, 117, 103, 97, 116, 101, 95, 108, 105, 110, 101, 97, 114, 105, 116, 121, 95, 97, 117, 116, 111>>,   \* "conjugate_linearity_auto"
      conjugate_multiplicative_auto |-> <<99, 111, 110, 106, 117, 103, 97, 116, 101, 95, 109, 117, 108, 116, 105, 112, 108, 105, 99, 97, 116, 105, 118, 101, 95, 97, 117, 116, 111>>,   \* "conjugate_multiplicative_auto"
      conjugate_linearity_reverse_auto |-> <<99, 111, 110, 106, 117, 103, 97, 116, 101, 95, 108, 105, 110, 101, 97, 114, 105, 116, 121, 95, 114, 101, 118, 101, 114, 115, 101, 95, 97, 117, 116, 111>>,   \* "conjugate_linearity_reverse_auto"
      conjugate_multiplicative_reverse_auto |-> <<99, 111, 110, 106, 117, 103, 97, 116, 101, 95, 109, 117, 108, 116, 105, 112, 108, 105, 99, 97, 116, 105, 118, 101, 95, 114, 101, 118, 101, 114, 115, 101, 95, 97, 117, 116, 111>>,   \* "conjugate_multiplicative_reverse_auto"
      differentiate_do_it |-> <<100, 105, 102, 102, 101, 114, 101, 110, 116, 105, 97, 116, 101, 95, 100, 111, 95, 105, 116>> ]   \* "differentiate_do_it"

\* The engine's function classes by name; any other name is an undefined function
Cls ==
    [ sin |-> Fn_.sin, cos |-> Fn_.cos, tan |-> Fn_.tan, sec |-> Fn_.sec, csc |-> Fn_.csc,
      cot |-> Fn_.cot, log |-> Fn_.log, exp |-> Fn_.exp, Abs |-> <<65, 98, 115>>,
      conjugate |-> Fn_.conjugate ]

IsClass(f) == \E k \in DOMAIN Cls_ : Cls_[k] = f

sp_Symbol(name) == [h |-> "Symbol", name |-> name]
sp_Wild(name) == [h |-> "Wild", name |-> name]
sp_I == [h |-> "I"]
Raw(h, args) == [h |-> h, args |-> args]
RawFn(f, arg) == [h |-> "Fn", f |-> f, args |-> <<arg>>]

Abs(n) == IF n < 0 THEN -n ELSE n

RECURSIVE Gcd(_, _)
Gcd(a, b) == IF b = 0 THEN a ELSE Gcd(b, a % b)

\* The number p/q in lowest terms: an Integer when the denominator is 1
Num(p, q) ==
    LET g == Gcd(Abs(p), Abs(q))
        sgn == IF q < 0 THEN -1 ELSE 1
        pp == sgn * (p \div g)
        qq == sgn * (q \div g)
    IN  IF qq = 1 THEN [h |-> "Integer", p |-> pp] ELSE [h |-> "Rational", p |-> pp, q |-> qq]

sp_Integer(n) == [h |-> "Integer", p |-> n]

IsNumber(e) == e.h \in {"Integer", "Rational"}
IsInteger(e) == e.h = "Integer"
NumP(e) == e.p
NumQ(e) == IF e.h = "Rational" THEN e.q ELSE 1
NumAdd(a, b) == Num_(NumP(a) * NumQ(b) + NumP(b) * NumQ(a), NumQ(a) * NumQ(b))
NumMul(a, b) == Num_(NumP(a) * NumP(b), NumQ(a) * NumQ(b))
IsAtom(e) == e.h \in {"Symbol", "Wild", "I", "Integer", "Rational"}

\* str(n) of a natural number, and of an integer
RECURSIVE NatStr(_)
NatStr(n) == IF n < 10 THEN <<48 + n>> ELSE NatStr(n \div 10) \o <<48 + (n % 10)>>

IntStr(n) == IF n < 0 THEN Repr_.minus \o NatStr(-n) ELSE NatStr(n)

\* sp.srepr(e): the constructor form of the tree
RECURSIVE sp_srepr(_)
sp_srepr(e) ==
    IF e.h = "Symbol" THEN Repr_.Symbol \o e.name \o Repr_.quote_close
    ELSE IF e.h = "Wild" THEN Repr_.Wild \o e.name \o Repr_.quote_close
    ELSE IF e.h = "Integer" THEN Repr_.Integer \o IntStr(e.p) \o Repr_.close
    ELSE IF e.h = "Rational"
        THEN Repr_.Rational \o IntStr(e.p) \o Repr_.sep \o IntStr(e.q) \o Repr_.close
    ELSE IF e.h = "I" THEN Repr_.I
    ELSE LET parts == Join_([i \in DOMAIN e.args |-> sp_srepr_(e.args[i])], Repr_.sep)
         IN  IF e.h = "Add" THEN Repr_.Add \o parts \o Repr_.close
             ELSE IF e.h = "Mul" THEN Repr_.Mul \o parts \o Repr_.close
             ELSE IF e.h = "Pow" THEN Repr_.Pow \o parts \o Repr_.close
             ELSE IF e.h = "Derivative" THEN Repr_.Derivative \o parts \o Repr_.close
             ELSE IF IsClass(e.f) THEN e.f \o Repr_.open \o parts \o Repr_.close
             ELSE Repr_.Function \o e.f \o Repr_.fn_open \o parts \o Repr_.close

\* sp.sstr(e): the infix form; a compound operand is put in parentheses, a
\* coefficient -1 is printed as a sign, and a term with a sign is subtracted
RECURSIVE sp_sstr(_)
sstr_operand(e) ==
    IF (IsAtom(e) /\ ~(IsNumber(e) /\ (e.p < 0 \/ e.h = "Rational"))) \/ e.h \in {"Fn", "Derivative"}
        THEN sp_sstr_(e)
        ELSE Repr_.open \o sp_sstr_(e) \o Repr_.close

sstr_factors(es) == Join_([i \in DOMAIN es |-> sstr_operand(es[i])], Repr_.star)

sstr_signed(s) ==
    IF s # <<>> /\ Head(s) = 45 THEN Repr_.minus_sp \o Tail(s) ELSE Repr_.plus \o s

sp_sstr(e) ==
    IF e.h \in {"Symbol", "Wild"} THEN e.name
    ELSE IF e.h = "Integer" THEN IntStr(e.p)
    ELSE IF e.h = "Rational" THEN IntStr(e.p) \o Repr_.slash \o IntStr(e.q)
    ELSE IF e.h = "I" THEN Repr_.I
    ELSE IF e.h = "Add"
        THEN sp_sstr_(e.args[1])
             \o Join_([i \in 1..(Len(e.args) - 1) |-> sstr_signed(sp_sstr_(e.args[i + 1]))], <<>>)
    ELSE IF e.h = "Mul"
        THEN IF e.args[1] = sp_Integer(-1) /\ Len(e.args) > 1
                 THEN Repr_.minus \o sstr_factors(Tail(e.args))
             ELSE IF IsInteger(e.args[1]) /\ Len(e.args) > 1
                 THEN IntStr(e.args[1].p) \o Repr_.star \o sstr_factors(Tail(e.args))
             ELSE sstr_factors(e.args)
    ELSE IF e.h = "Pow" THEN sstr_operand(e.args[1]) \o Repr_.pow \o sstr_operand(e.args[2])
    ELSE IF e.h = "Derivative"
        THEN Repr_.Derivative
             \o Join_([i \in DOMAIN e.args |-> sp_sstr_(e.args[i])], Repr_.sep) \o Repr_.close
    ELSE e.f \o Repr_.open \o sp_sstr_(e.args[1]) \o Repr_.close

\* The engine's canonical order of arguments: numbers, I, symbols, then
\* compound expressions, each class by its printed form
ClassRank(e) ==
    IF IsNumber(e) THEN 0
    ELSE IF e.h = "I" THEN 1
    ELSE IF e.h \in {"Symbol", "Wild"} THEN 2
    ELSE 3

ExprLess(a, b) ==
    IF ClassRank(a) # ClassRank(b) THEN ClassRank(a) < ClassRank(b)
    ELSE IF IsNumber(a) THEN NumP(a) * NumQ(b) < NumP(b) * NumQ(a)
    ELSE StrLess(sp_srepr_(a), sp_srepr_(b))

RECURSIVE InsertExpr(_, _)
InsertExpr(x, sorted) ==
    IF sorted = <<>> THEN <<x>>
    ELSE IF ExprLess(x, Head(sorted)) THEN <<x>> \o sorted
    ELSE <<Head(sorted)>> \o InsertExpr(x, Tail(sorted))

RECURSIVE SortExprs(_)
SortExprs(es) == IF es = <<>> THEN <<>> ELSE InsertExpr(Head(es), SortExprs_(Tail(es)))

\* The arguments with every nested node of head h spliced in
RECURSIVE Flatten(_, _)
Flatten(h, es) ==
    IF es = <<>> THEN <<>>
    ELSE IF Head(es).h = h THEN Flatten_(h, Head(es).args) \o Flatten_(h, Tail(es))
    ELSE <<Head(es)>> \o Flatten_(h, Tail(es))

\* The elements of a set, in canonical order
RECURSIVE SetToSortedSeq(_)
SetToSortedSeq(S) ==
    IF S = {} THEN <<>>
    ELSE LET x == CHOOSE y \in S : \A z \in S \ {y} : ExprLess(y, z)
         IN  <<x>> \o SetToSortedSeq(S \ {x})

IsFn(e, f) == e.h = "Fn" /\ e.f = f
Zero == sp_Integer(0)
One == sp_Integer(1)

RECURSIVE NumPow(_, _)
NumPow(a, n) ==
    IF n = 0 THEN One
    ELSE IF n < 0 THEN NumPow_(Num_(NumQ(a), NumP(a)), -n)
    ELSE NumMul(a, NumPow_(a, n - 1))

\* The distinct elements of a sequence, in order of first occurrence
RECURSIVE Distinct(_)
Distinct(es) ==
    IF es = <<>> THEN <<>>
    ELSE LET rest == Distinct_(SubSeq(es, 1, Len(es) - 1))
             last == es[Len(es)]
         IN  IF \E i \in DOMAIN rest : rest[i] = last THEN rest ELSE Append(rest, last)

RECURSIVE NumSum(_)
NumSum(es) == IF es = <<>> THEN Zero ELSE NumAdd(Head(es), NumSum_(Tail(es)))

RECURSIVE NumProd(_)
NumProd(es) == IF es = <<>> THEN One ELSE NumMul(Head(es), NumProd_(Tail(es)))

\* A term as coefficient times the rest (as_coeff_Mul)
CoeffOf(t) == IF t.h = "Mul" /\ IsNumber(t.args[1]) THEN t.args[1] ELSE One
RestOf(t) ==
    IF t.h = "Mul" /\ IsNumber(t.args[1])
        THEN IF Len(t.args) = 2 THEN t.args[2] ELSE Raw("Mul", Tail(t.args))
        ELSE t

\* A factor as base to the exponent (as_base_exp)
BaseOf(t) == IF t.h = "Pow" THEN t.args[1] ELSE t
ExpOf(t) == IF t.h = "Pow" THEN t.args[2] ELSE One

\* coefficient * rest for a coefficient that is neither 0 nor 1 and a rest that is no number
CoeffTimes(c, r) ==
    IF r.h = "Mul" THEN Raw("Mul", <<c>> \o r.args) ELSE Raw("Mul", <<c, r>>)

RECURSIVE sp_Add(_)
RECURSIVE sp_Mul(_)
RECURSIVE sp_Pow(_, _)

\* The numbers among the arguments, and the arguments that are no numbers
RECURSIVE Numbers(_)
Numbers(es) ==
    IF es = <<>> THEN <<>>
    ELSE (IF IsNumber(Head(es)) THEN <<Head(es)>> ELSE <<>>) \o Numbers_(Tail(es))

RECURSIVE NonNumbers(_)
NonNumbers(es) ==
    IF es = <<>> THEN <<>>
    ELSE (IF IsNumber(Head(es)) THEN <<>> ELSE <<Head(es)>>) \o NonNumbers_(Tail(es))

\* The coefficients of the terms whose rest is r
RECURSIVE CoeffsOf(_, _)
CoeffsOf(es, r) ==
    IF es = <<>> THEN <<>>
    ELSE (IF RestOf_(Head(es)) = r THEN <<CoeffOf(Head(es))>> ELSE <<>>) \o CoeffsOf_(Tail(es), r)

\* The exponents of the factors whose base is b
RECURSIVE ExpsOf(_, _)
ExpsOf(es, b) ==
    IF es = <<>> THEN <<>>
    ELSE (IF BaseOf(Head(es)) = b THEN <<ExpOf(Head(es))>> ELSE <<>>) \o ExpsOf_(Tail(es), b)

\* Like terms collected: one term for every rest, with the sum of its
\* coefficients, unless that sum is zero
RECURSIVE CollectTerms(_, _)
CollectTerms(rests, others) ==
    IF rests = <<>> THEN <<>>
    ELSE LET r == Head(rests)
             coeff == NumSum_(CoeffsOf_(others, r))
             term == IF coeff = Zero THEN <<>>
                     ELSE IF coeff = One THEN <<r>>
                     ELSE <<CoeffTimes(coeff, r)>>
         IN  term \o CollectTerms(Tail(rests), others)

\* sp.Add(*args): nested sums are flattened, numbers folded, like terms collected
sp_Add(args) ==
    LET flat == Flatten_("Add", args)
        const == NumSum_(Numbers_(flat))
        others == NonNumbers_(flat)
        rests == Distinct_([i \in DOMAIN others |-> RestOf_(others[i])])
        terms == SortExprs_(CollectTerms(rests, others))
        all == IF const = Zero THEN terms ELSE <<const>> \o terms
    IN  IF all = <<>> THEN Zero
        ELSE IF Len(all) = 1 THEN all[1]
        ELSE Raw("Add", all)

\* sp.Mul(*args): nested products are flattened, numbers folded, powers of one
\* base collected, and a number times a sum is distributed over the sum
sp_Mul(args) ==
    LET flat == Flatten_("Mul", args)
        coeff == NumProd_(Numbers_(flat))
        others == NonNumbers_(flat)
        bases == Distinct_([i \in DOMAIN others |-> BaseOf(others[i])])
        powers == [i \in DOMAIN bases |-> sp_Pow_(bases[i], sp_Add_(ExpsOf_(others, bases[i])))]
        settled == \A i \in DOMAIN powers :
                       ~IsNumber(powers[i]) /\ powers[i].h # "Mul"
                       /\ BaseOf(powers[i]) = bases[i]
        factors == SortExprs_(powers)
    IN  IF coeff = Zero THEN Zero
        ELSE IF ~settled THEN sp_Mul_(<<coeff>> \o powers)
        ELSE IF factors = <<>> THEN coeff
        ELSE IF coeff = One
            THEN IF Len(factors) = 1 THEN factors[1] ELSE Raw("Mul", factors)
        ELSE IF Len(factors) = 1 /\ factors[1].h = "Add"
            THEN sp_Add_([i \in DOMAIN factors[1].args |-> sp_Mul_(<<coeff, factors[1].args[i]>>)])
        ELSE Raw("Mul", <<coeff>> \o factors)

\* base ** exponent
sp_Pow(b, e) ==
    IF e = Zero THEN One
    ELSE IF e = One THEN b
    ELSE IF b = One THEN One
    ELSE IF IsNumber(b) /\ IsInteger(e) THEN NumPow_(b, e.p)
    ELSE IF b.h = "I" /\ IsInteger(e)
        THEN LET r == e.p % 4
             IN  IF r = 0 THEN One
                 ELSE IF r = 1 THEN sp_I
                 ELSE IF r = 2 THEN sp_Integer(-1)
                 ELSE Raw("Mul", <<sp_Integer(-1), sp_I>>)
    ELSE IF b.h = "Pow" /\ IsInteger(e) THEN sp_Pow_(b.args[1], sp_Mul_(<<b.args[2], e>>))
    ELSE IF b.h = "Mul" /\ IsInteger(e)
        THEN sp_Mul_([i \in DOMAIN b.args |-> sp_Pow_(b.args[i], e)])
    ELSE Raw("Pow", <<b, e>>)

\* The free symbols of an expression
RECURSIVE free_symbols(_)
free_symbols(e) ==
    IF e.h = "Symbol" THEN {e}
    ELSE IF IsAtom(e) THEN {}
    ELSE UNION { free_symbols_(e.args[i]) : i \in DOMAIN e.args }

\* sp.Derivative(arg, var): zero at once when var is not free in arg
sp_Derivative(arg, var) ==
    IF var \notin free_symbols_(arg) THEN Zero ELSE Raw("Derivative", <<arg, var>>)

\* f(arg) for a function class of the engine, evaluated where the engine
\* evaluates at construction; conjugate is pushed through sums, products,
\* integer powers and the functions that commute with it
RECURSIVE sp_Fn(_, _)
sp_conjugate(arg) ==
    IF IsNumber(arg) THEN arg
    ELSE IF arg.h = "I" THEN sp_Mul_(<<sp_Integer(-1), sp_I>>)
    ELSE IF arg.h = "Add" THEN sp_Add_([i \in DOMAIN arg.args |-> sp_Fn_(Cls_.conjugate, arg.args[i])])
    ELSE IF arg.h = "Mul" THEN sp_Mul_([i \in DOMAIN arg.args |-> sp_Fn_(Cls_.conjugate, arg.args[i])])
    ELSE IF arg.h = "Pow" /\ IsInteger(arg.args[2])
        THEN sp_Pow_(sp_Fn_(Cls_.conjugate, arg.args[1]), arg.args[2])
    ELSE IF IsFn(arg, Cls_.conjugate) THEN arg.args[1]
    ELSE IF IsFn(arg, Cls_.Abs) THEN arg
    ELSE IF arg.h = "Fn" /\ arg.f \in {Cls_.sin, Cls_.cos, Cls_.tan, Cls_.sec, Cls_.csc, Cls_.cot, Cls_.exp}
        THEN sp_Fn_(arg.f, sp_Fn_(Cls_.conjugate, arg.args[1]))
    ELSE RawFn(Cls_.conjugate, arg)

sp_Fn(f, arg) ==
    IF f = Cls_.conjugate THEN sp_conjugate_(arg)
    ELSE IF f \in {Cls_.sin, Cls_.tan} /\ arg = Zero THEN Zero
    ELSE IF f \in {Cls_.cos, Cls_.sec, Cls_.exp} /\ arg = Zero THEN One
    ELSE IF f = Cls_.log /\ arg = One THEN Zero
    ELSE IF f = Cls_.Abs /\ IsNumber(arg) THEN Num_(Abs(arg.p), NumQ(arg))
    ELSE RawFn(f, arg)

sp_sin(arg) == sp_Fn_(Cls_.sin, arg)
sp_cos(arg) == sp_Fn_(Cls_.cos, arg)
sp_tan(arg) == sp_Fn_(Cls_.tan, arg)
sp_sec(arg) == sp_Fn_(Cls_.sec, arg)
sp_csc(arg) == sp_Fn_(Cls_.csc, arg)
sp_cot(arg) == sp_Fn_(Cls_.cot, arg)
sp_log(arg) == sp_Fn_(Cls_.log, arg)
sp_exp(arg) == sp_Fn_(Cls_.exp, arg)
sp_Abs(arg) == sp_Fn_(Cls_.Abs, arg)

\* sp.Function(name)(arg): an applied undefined function
sp_Function(name, arg) == RawFn(name, arg)

\* f(args) rebuilt by the constructor of its head, evaluating as at construction
Rebuild(e, args) ==
    IF e.h = "Add" THEN sp_Add_(args)
    ELSE IF e.h = "Mul" THEN sp_Mul_(args)
    ELSE IF e.h = "Pow" THEN sp_Pow_(args[1], args[2])
    ELSE IF e.h = "Derivative" THEN sp_Derivative_(args[1], args[2])
    ELSE IF IsClass(e.f) THEN sp_Fn_(e.f, args[1])
    ELSE sp_Function(e.f, args[1])

\* expr.xreplace(rule) for a rule from symbols to expressions: every node with a
\* replaced symbol below it is rebuilt by its constructor, the others are kept as they are
RECURSIVE sp_xreplace(_, _)
sp_xreplace(e, rule) ==
    IF e \in DOMAIN rule THEN rule[e]
    ELSE IF IsAtom(e) \/ free_symbols_(e) \cap DOMAIN rule = {} THEN e
    ELSE Rebuild_(e, [i \in DOMAIN e.args |-> sp_xreplace_(e.args[i], rule)])

\* The result of a match: None, or the binding of wildcard names
Matched(map) == [kind |-> "match", map |-> map]
NoBinding == [w \in {} |-> Zero]
Bind(m, w, e) == Matched([x \in DOMAIN m.map \cup {w} |-> IF x = w THEN e ELSE m.map[x]])

RemoveAt(es, i) == SubSeq(es, 1, i - 1) \o SubSeq(es, i + 1, Len(es))

\* The bare wildcards among the patterns, and the patterns that are none
RECURSIVE BareWilds(_)
BareWilds(pats) ==
    IF pats = <<>> THEN <<>>
    ELSE (IF Head(pats).h = "Wild" THEN <<Head(pats)>> ELSE <<>>) \o BareWilds(Tail(pats))

RECURSIVE Compound(_)
Compound(pats) ==
    IF pats = <<>> THEN <<>>
    ELSE (IF Head(pats).h = "Wild" THEN <<>> ELSE <<Head(pats)>>) \o Compound(Tail(pats))

\* The patterns of a sum or product with the bare wildcards last
WildsLast(pats) == Compound(pats) \o BareWilds(pats)

\* expr.match(pattern), continued from the binding m.  Heads must agree; the
\* arguments of a sum or a product are matched in any order, the first
\* assignment that succeeds is taken, and a last bare wildcard takes all
\* the arguments that are left
RECURSIVE match_from(_, _, _)
RECURSIVE match_args(_, _, _)
RECURSIVE match_any_order(_, _, _, _)
match_from(pattern, e, m) ==
    IF m = None THEN None
    ELSE IF pattern.h = "Wild"
        THEN IF pattern.name \in DOMAIN m.map
                 THEN IF m.map[pattern.name] = e THEN m ELSE None
                 ELSE Bind(m, pattern.name, e)
    ELSE IF IsAtom(pattern) THEN IF pattern = e THEN m ELSE None
    ELSE IF pattern.h # e.h THEN None
    ELSE IF pattern.h = "Fn" /\ pattern.f # e.f THEN None
    ELSE IF pattern.h \in {"Add", "Mul"}
        THEN match_any_order(pattern.h, WildsLast(pattern.args), e.args, m)
    ELSE IF Len(pattern.args) # Len(e.args) THEN None
    ELSE match_args(pattern.args, e.args, m)

match_args(pats, es, m) ==
    IF m = None \/ pats = <<>> THEN m
    ELSE match_args(Tail(pats), Tail(es), match_from_(Head(pats), Head(es), m))

match_any_order(h, pats, es, m) ==
    IF m = None THEN None
    ELSE IF pats = <<>> THEN IF es = <<>> THEN m ELSE None
    ELSE IF Len(pats) > Len(es) THEN None
    ELSE IF Len(pats) = 1 /\ pats[1].h = "Wild"
        THEN match_from_(pats[1], IF Len(es) = 1 THEN es[1] ELSE Raw(h, es), m)
    ELSE LET with(i) == match_any_order(h, Tail(pats), RemoveAt(es, i),
                                       match_from_(Head(pats), es[i], m))
             fits == {i \in DOMAIN es : with(i) # None}
         IN  IF fits = {} THEN None
             ELSE with(CHOOSE i \in fits : \A j \in fits : i <= j)

sp_match(e, pattern) == match_from_(pattern, e, Matched(NoBinding))

-----------------------------------------------------------------------------
(* The adapter: from the tree to an expression of the engine *)

IsDigits(s) == s # <<>> /\ \A i \in DOMAIN s : s[i] \in 48..57

RECURSIVE DigitsValue(_)
DigitsValue(s) ==
    IF s = <<>> THEN 0 ELSE 10 * DigitsValue(SubSeq(s, 1, Len(s) - 1)) + (s[Len(s)] - 48)

HasSign(s) == s # <<>> /\ Head(s) \in {43, 45}
Unsigned(s) == IF HasSign(s) THEN Tail(s) ELSE s
SignOf(s) == IF s # <<>> /\ Head(s) = 45 THEN -1 ELSE 1

\* int(txt) succeeds: an optional sign and decimal digits, blanks around them
IsIntText(txt) == IsDigits(Unsigned(Strip_(txt)))
IntOfText(txt) == SignOf(Strip_(txt)) * DigitsValue(Unsigned(Strip_(txt)))

\* sp.Rational(txt) succeeds: p/q, or a decimal fraction
SplitAt(s, c) == CHOOSE i \in DOMAIN s : s[i] = c /\ \A j \in 1..(i - 1) : s[j] # c
HasChar(s, c) == \E i \in DOMAIN s : s[i] = c
IsFractionText(txt) ==
    LET s == Strip_(txt)
    IN  /\ HasChar(s, 47)
        /\ IsDigits(Unsigned(SubSeq(s, 1, SplitAt(s, 47) - 1)))
        /\ IsDigits(SubSeq(s, SplitAt(s, 47) + 1, Len(s)))
        /\ DigitsValue(SubSeq(s, SplitAt(s, 47) + 1, Len(s))) # 0
IsDecimalText(txt) ==
    LET s == Unsigned(Strip_(txt))
    IN  /\ HasChar(s, 46)
        /\ IsDigits(SubSeq(s, 1, SplitAt(s, 46) - 1) \o SubSeq(s, SplitAt(s, 46) + 1, Len(s)))
RationalOfText(txt) ==
    LET s == Strip_(txt)
        u == Unsigned(s)
    IN  IF IsFractionText(txt)
            THEN Num_(SignOf(s) * DigitsValue(SubSeq(u, 1, SplitAt(u, 47) - 1)),
                     DigitsValue(SubSeq(u, SplitAt(u, 47) + 1, Len(u))))
            ELSE Num_(SignOf(s) * DigitsValue(SubSeq(u, 1, SplitAt(u, 46) - 1)
                                                \o SubSeq(u, SplitAt(u, 46) + 1, Len(u))),
                     NumPow_(sp_Integer(10), Len(u) - SplitAt(u, 46)).p)

number_to_sympy(txt) ==
    IF IsIntText(txt) THEN sp_Integer(IntOfText(txt))
    ELSE IF IsFractionText(txt) \/ IsDecimalText(txt) THEN RationalOfText(txt)
    ELSE sp_Symbol(txt)

call_to_sympy(func, arg) ==
    IF func = Fn_.sin THEN sp_sin(arg)
    ELSE IF func = Fn_.cos THEN sp_cos(arg)
    ELSE IF func = Fn_.tan THEN sp_tan(arg)
    ELSE IF func = Fn_.sec THEN sp_sec(arg)
    ELSE IF func = Fn_.csc THEN sp_csc(arg)
    ELSE IF func = Fn_.cot THEN sp_cot(arg)
    ELSE IF func = Fn_.log THEN sp_log(arg)
    ELSE IF func = Fn_.exp THEN sp_exp(arg)
    ELSE IF func \in {Fn_.abs, Fn_.absolutevalue} THEN sp_Abs(arg)
    ELSE IF func \in {Fn_.conjugate, Fn_.conj} THEN sp_conjugate_(arg)
    ELSE sp_Function(func, arg)

RECURSIVE _ast_to_sympy(_)
_ast_to_sympy(ast) ==
    LET k == ast.kind
    IN  IF k = "ident"
            THEN IF ast.name \in {Nm_.i, Nm_.I} THEN sp_I ELSE sp_Symbol(ast.name)
        ELSE IF k = "number" THEN number_to_sympy(ast.value)
        ELSE IF k = "power" THEN sp_Pow_(_ast_to_sympy_(ast.base), _ast_to_sympy_(ast.exponent))
        ELSE IF k = "add"
            THEN sp_Add_([i \in DOMAIN ast.terms |-> _ast_to_sympy_(ast.terms[i])])
        ELSE IF k = "call"
            THEN IF Lower(ast.func) = Fn_.times
                     THEN IF ast.arg.kind = "add"
                              THEN sp_Mul_([i \in DOMAIN ast.arg.terms |-> _ast_to_sympy_(ast.arg.terms[i])])
                              ELSE _ast_to_sympy_(ast.arg)
                     ELSE call_to_sympy(Lower(ast.func), _ast_to_sympy_(ast.arg))
        ELSE IF k = "diff"
            THEN sp_Derivative_(_ast_to_sympy_(ast.arg),
                               IF ast.var.kind = "ident" THEN sp_Symbol(ast.var.name)
                                                         ELSE sp_Symbol(Nm_.x))
        ELSE sp_Symbol(Nm_.x)

-----------------------------------------------------------------------------
(* The rule catalog: the lines of the rule-definition file, compiled once  *)
(* into pattern/template pairs                                             *)

\* Pieces of the rule-definition grammar, and the rule sides of the catalog.
RuleText ==
    [ keyword |-> <<114, 101, 119, 114, 105, 116, 101>>,   \* "rewrite"
      hash |-> <<35>>,   \* "#"
      bar |-> <<124>>,   \* "|"
      colon |-> <<58>>,   \* ":"
      rule |-> <<114, 117, 108, 101, 58>>,   \* "rule:"
      label |-> <<108, 97, 98, 101, 108, 58>>,   \* "label:"
      default_name |-> <<114, 117, 108, 101, 95>>,   \* "rule_"
      arrow |-> <<32, 8596, 32>>,   \* " ? "
      reverse |-> <<32, 40, 114, 101, 118, 101, 114, 115, 101, 41>>,
          \* " (reverse)"
      sin_2x |-> <<115, 105, 110, 40, 50, 42, 120, 41>>,   \* "sin(2*x)"
      two_sin_cos |-> <<50, 42, 115, 105, 110, 40, 120, 41, 42, 99, 111, 115, 40, 120, 41>>,
          \* "2*sin(x)*cos(x)"
      a_plus_a |-> <<97, 32, 43, 32, 97>>,   \* "a + a"
      two_a |-> <<50, 42, 97>>,   \* "2*a"
      conj_exp |-> <<99, 111, 110, 106, 117, 103, 97, 116, 101, 40, 101, 120, 112, 40, 73, 42, 116, 104, 101, 116, 97, 41, 41>>,
          \* "conjugate(exp(I*theta))"
      exp_minus |-> <<101, 120, 112, 40, 45, 73, 42, 116, 104, 101, 116, 97, 41>>,
          \* "exp(-I*theta)"
      conj_sum |-> <<99, 111, 110, 106, 117, 103, 97, 116, 101, 40, 97, 32, 43, 32, 98, 41>>,
          \* "conjugate(a + b)"
      sum_conj |-> <<99, 111, 110, 106, 117, 103, 97, 116, 101, 40, 97, 41, 32, 43, 32, 99, 111, 110, 106, 117, 103, 97, 116, 101, 40, 98, 41>>,
          \* "conjugate(a) + conjugate(b)"
      z_conj_z |-> <<122, 42, 99, 111, 110, 106, 117, 103, 97, 116, 101, 40, 122, 41>>,
          \* "z*conjugate(z)"
      abs_sq |-> <<65, 98, 115, 40, 122, 41, 42, 42, 50>>,   \* "Abs(z)**2"
      x_times_x |-> <<120, 42, 120>>,   \* "x*x"
      x_squared |-> <<120, 42, 42, 50>>,   \* "x**2"
      abs_x_sq |-> <<65, 98, 115, 40, 120, 41, 42, 42, 50>>,   \* "Abs(x)**2"
      quadratic |-> <<120, 42, 42, 50, 32, 43, 32, 98, 42, 120, 32, 43, 32, 99>>,   \* "x**2 + b*x + c"
      completed |-> <<40, 120, 32, 43, 32, 98, 47, 50, 41, 42, 42, 50, 32, 45, 32, 98, 42, 42, 50, 47, 52, 32, 43, 32, 99>>,
          \* "(x + b/2)**2 - b**2/4 + c"
      unparsable |-> <<115, 105, 110, 40>> ]   \* "sin("

\* The lines of the rule-definition file.
RuleFile ==
    [ comment |-> <<35, 32, 116, 114, 105, 103, 111, 110, 111, 109, 101, 116, 114, 121>>,
          \* "# trigonometry"
      blank |-> <<32, 32>>,   \* "  "
      double_angle |-> <<115, 105, 110, 40, 50, 42, 120, 41, 32, 114, 101, 119, 114, 105, 116, 101, 32, 50, 42, 115, 105, 110, 40, 120, 41, 42, 99, 111, 115, 40, 120, 41, 32, 35, 32, 114, 117, 108, 101, 58, 32, 116, 114, 105, 103, 95, 100, 111, 117, 98, 108, 101, 95, 97, 110, 103, 108, 101, 95, 115, 105, 110, 32, 124, 32, 108, 97, 98, 101, 108, 58, 32, 68, 111, 117, 98, 108, 101, 32, 97, 110, 103, 108, 101>>,
          \* "sin(2*x) rewrite 2*sin(x)*cos(x) # rule: trig_double_angle_sin | label: Double angle"
      like_terms |-> <<97, 32, 43, 32, 97, 32, 114, 101, 119, 114, 105, 116, 101, 32, 50, 42, 97, 32, 35, 32, 82, 117, 108, 101, 58, 32, 99, 111, 109, 98, 105, 110, 101, 95, 108, 105, 107, 101, 95, 116, 101, 114, 109, 115, 95, 97, 100, 100, 32, 124, 32, 76, 97, 98, 101, 108, 58, 32, 67, 111, 109, 98, 105, 110, 101, 32, 108, 105, 107, 101, 32, 116, 101, 114, 109, 115>>,
          \* "a + a rewrite 2*a # Rule: combine_like_terms_add | Label: Combine like terms"
      conj_exp |-> <<99, 111, 110, 106, 117, 103, 97, 116, 101, 40, 101, 120, 112, 40, 73, 42, 116, 104, 101, 116, 97, 41, 41, 32, 114, 101, 119, 114, 105, 116, 101, 32, 101, 120, 112, 40, 45, 73, 42, 116, 104, 101, 116, 97, 41, 32, 35, 32, 114, 117, 108, 101, 58, 32, 99, 111, 110, 106, 117, 103, 97, 116, 101, 95, 101, 120, 112, 95, 105, 95, 116, 104, 101, 116, 97, 32, 124, 32, 108, 97, 98, 101, 108, 58, 32, 67, 111, 110, 106, 117, 103, 97, 116, 101, 32, 111, 102, 32, 101, 120, 112>>,
          \* "conjugate(exp(I*theta)) rewrite exp(-I*theta) # rule: conjugate_exp_i_theta | label: Conjugate of exp"
      conj_sum |-> <<99, 111, 110, 106, 117, 103, 97, 116, 101, 40, 97, 32, 43, 32, 98, 41, 32, 114, 101, 119, 114, 105, 116, 101, 32, 99, 111, 110, 106, 117, 103, 97, 116, 101, 40, 97, 41, 32, 43, 32, 99, 111, 110, 106, 117, 103, 97, 116, 101, 40, 98, 41, 32, 35, 32, 108, 97, 98, 101, 108, 58, 32, 67, 111, 110, 106, 117, 103, 97, 116, 105, 111, 110, 32, 105, 115, 32, 108, 105, 110, 101, 97, 114, 32, 124, 32, 114, 117, 108, 101, 58, 32, 99, 111, 110, 106, 117, 103, 97, 116, 101, 95, 108, 105, 110, 101, 97, 114, 105, 116, 121>>,
          \* "conjugate(a + b) rewrite conjugate(a) + conjugate(b) # label: Conjugation is linear | rule: conjugate_linearity"
      modulus |-> <<122, 42, 99, 111, 110, 106, 117, 103, 97, 116, 101, 40, 122, 41, 32, 114, 101, 119, 114, 105, 116, 101, 32, 65, 98, 115, 40, 122, 41, 42, 42, 50, 32, 35, 32, 114, 117, 108, 101, 58, 32, 109, 111, 100, 117, 108, 117, 115, 95, 115, 113, 117, 97, 114, 101>>,
          \* "z*conjugate(z) rewrite Abs(z)**2 # rule: modulus_square"
      unnamed |-> <<120, 42, 120, 32, 114, 101, 119, 114, 105, 116, 101, 32, 120, 42, 42, 50>>,
          \* "x*x rewrite x**2"
      no_keyword |-> <<120, 42, 120, 32, 61, 32, 120, 42, 42, 50, 32, 35, 32, 114, 117, 108, 101, 58, 32, 98, 114, 111, 107, 101, 110>>,
          \* "x*x = x**2 # rule: broken"
      two_keywords |-> <<97, 32, 114, 101, 119, 114, 105, 116, 101, 32, 98, 32, 114, 101, 119, 114, 105, 116, 101, 32, 99, 32, 35, 32, 114, 117, 108, 101, 58, 32, 116, 119, 105, 99, 101>>,
          \* "a rewrite b rewrite c # rule: twice"
      bad_side |-> <<115, 105, 110, 40, 32, 114, 101, 119, 114, 105, 116, 101, 32, 120, 42, 42, 50, 32, 35, 32, 114, 117, 108, 101, 58, 32, 117, 110, 112, 97, 114, 115, 97, 98, 108, 101>>,
          \* "sin( rewrite x**2 # rule: unparsable"
      plain_double_angle |-> <<115, 105, 110, 40, 50, 42, 120, 41, 32, 114, 101, 119, 114, 105, 116, 101, 32, 50, 42, 115, 105, 110, 40, 120, 41, 42, 99, 111, 115, 40, 120, 41>>,
          \* "sin(2*x) rewrite 2*sin(x)*cos(x)"
      sin2 |-> <<115, 105, 110, 40, 50, 42, 120, 41, 32, 114, 101, 119, 114, 105, 116, 101, 32, 50, 42, 115, 105, 110, 40, 120, 41, 42, 99, 111, 115, 40, 120, 41, 32, 35, 32, 114, 117, 108, 101, 58, 32, 116, 114, 105, 103, 95, 105, 100, 101, 110, 116, 105, 116, 121, 95, 115, 105, 110, 50>>,
          \* "sin(2*x) rewrite 2*sin(x)*cos(x) # rule: trig_identity_sin2"
      square_abs |-> <<120, 42, 42, 50, 32, 114, 101, 119, 114, 105, 116, 101, 32, 65, 98, 115, 40, 120, 41, 42, 42, 50, 32, 35, 32, 114, 117, 108, 101, 58, 32, 99, 111, 109, 112, 108, 101, 116, 101, 95, 115, 113, 117, 97, 114, 101, 32, 124, 32, 108, 97, 98, 101, 108, 58, 32, 83, 113, 117, 97, 114, 101, 32, 111, 102, 32, 97, 32, 114, 101, 97, 108>>,
          \* "x**2 rewrite Abs(x)**2 # rule: complete_square | label: Square of a real"
      complete_square |-> <<120, 42, 42, 50, 32, 43, 32, 98, 42, 120, 32, 43, 32, 99, 32, 114, 101, 119, 114, 105, 116, 101, 32, 40, 120, 32, 43, 32, 98, 47, 50, 41, 42, 42, 50, 32, 45, 32, 98, 42, 42, 50, 47, 52, 32, 43, 32, 99, 32, 35, 32, 114, 117, 108, 101, 58, 32, 99, 111, 109, 112, 108, 101, 116, 101, 95, 115, 113, 117, 97, 114, 101>>,
          \* "x**2 + b*x + c rewrite (x + b/2)**2 - b**2/4 + c # rule: complete_square"
      modulus_as_square |-> <<122, 42, 99, 111, 110, 106, 117, 103, 97, 116, 101, 40, 122, 41, 32, 114, 101, 119, 114, 105, 116, 101, 32, 65, 98, 115, 40, 122, 41, 42, 42, 50, 32, 35, 32, 114, 117, 108, 101, 58, 32, 99, 111, 109, 112, 108, 101, 116, 101, 95, 115, 113, 117, 97, 114, 101>> ]
          \* "z*conjugate(z) rewrite Abs(z)**2 # rule: complete_square"

\* An exception of the engine; its message is never used
Raised == Err(<<>>)

Sym(name) == sp_Symbol(name)
Two == sp_Integer(2)

\* parse_expr(s, evaluate=False) for the sides the rule file holds: the tree
\* as written, binary operators nested to the left; any other text fails
ParsedSides ==
    << <<RuleText_.sin_2x, RawFn(Cls_.sin, Raw("Mul", <<Two, Sym(Nm_.x)>>))>>,
       <<RuleText_.two_sin_cos,
         Raw("Mul", <<Raw("Mul", <<Two, RawFn(Cls_.sin, Sym(Nm_.x))>>), RawFn(Cls_.cos, Sym(Nm_.x))>>)>>,
       <<RuleText_.a_plus_a, Raw("Add", <<Sym(Nm_.a), Sym(Nm_.a)>>)>>,
       <<RuleText_.two_a, Raw("Mul", <<Two, Sym(Nm_.a)>>)>>,
       <<RuleText_.conj_exp,
         RawFn(Cls_.conjugate, RawFn(Cls_.exp, Raw("Mul", <<sp_I, Sym(Nm_.theta)>>)))>>,
       <<RuleText_.exp_minus,
         RawFn(Cls_.exp, Raw("Mul", <<Raw("Mul", <<sp_Integer(-1), sp_I>>), Sym(Nm_.theta)>>))>>,
       <<RuleText_.conj_sum, RawFn(Cls_.conjugate, Raw("Add", <<Sym(Nm_.a), Sym(Nm_.b)>>))>>,
       <<RuleText_.sum_conj,
         Raw("Add", <<RawFn(Cls_.conjugate, Sym(Nm_.a)), RawFn(Cls_.conjugate, Sym(Nm_.b))>>)>>,
       <<RuleText_.z_conj_z, Raw("Mul", <<Sym(Nm_.z), RawFn(Cls_.conjugate, Sym(Nm_.z))>>)>>,
       <<RuleText_.abs_sq, Raw("Pow", <<RawFn(Cls_.Abs, Sym(Nm_.z)), Two>>)>>,
       <<RuleText_.x_times_x, Raw("Mul", <<Sym(Nm_.x), Sym(Nm_.x)>>)>>,
       <<RuleText_.x_squared, Raw("Pow", <<Sym(Nm_.x), Two>>)>>,
       <<RuleText_.abs_x_sq, Raw("Pow", <<RawFn(Cls_.Abs, Sym(Nm_.x)), Two>>)>>,
       <<RuleText_.quadratic,
         Raw("Add", <<Raw("Add", <<Raw("Pow", <<Sym(Nm_.x), Two>>),
                                   Raw("Mul", <<Sym(Nm_.b), Sym(Nm_.x)>>)>>),
                      Sym(Nm_.c)>>)>>,
       <<RuleText_.completed,
         Raw("Add",
             <<Raw("Add",
                   <<Raw("Pow", <<Raw("Add", <<Sym(Nm_.x),
                                              Raw("Mul", <<Sym(Nm_.b),
                                                           Raw("Pow", <<Two, sp_Integer(-1)>>)>>)>>),
                                  Two>>),
                     Raw("Mul", <<sp_Integer(-1),
                                  Raw("Mul", <<Raw("Pow", <<Sym(Nm_.b), Two>>),
                                               Raw("Pow", <<sp_Integer(4), sp_Integer(-1)>>)>>)>>)>>),
               Sym(Nm_.c)>>)>>,
       <<Nm_.a, Sym(Nm_.a)>>, <<Nm_.b, Sym(Nm_.b)>> >>

_sympify_rule_side(str) ==
    IF \E i \in DOMAIN ParsedSides : ParsedSides[i][1] = str
        THEN Ok(ParsedSides[CHOOSE i \in DOMAIN ParsedSides : ParsedSides[i][1] = str][2])
        ELSE Raised

\* Python string primitives on code-point sequences
StartsWith(str, prefix) == Len(str) >= Len(prefix) /\ SubSeq(str, 1, Len(prefix)) = prefix
OccursAt(str, sub, i) == i + Len(sub) - 1 <= Len(str) /\ SubSeq(str, i, i + Len(sub) - 1) = sub
Contains(str, sub) == \E i \in 1..(Len(str) + 1) : OccursAt_(str, sub, i)
FindFirst(str, sub) == CHOOSE i \in 1..(Len(str) + 1) :
                           OccursAt_(str, sub, i) /\ \A j \in 1..(i - 1) : ~OccursAt_(str, sub, j)

\* str.split(sep): the pieces between the occurrences of sep, left to right
RECURSIVE Split(_, _)
Split(str, sep) ==
    IF ~Contains_(str, sep) THEN <<str>>
    ELSE LET i == FindFirst_(str, sep)
         IN  <<SubSeq(str, 1, i - 1)>> \o Split_(SubSeq(str, i + Len(sep), Len(str)), sep)

\* str.split(sep, 1): cut at the first occurrence only
SplitOnce(str, sep) ==
    IF ~Contains_(str, sep) THEN <<str>>
    ELSE LET i == FindFirst_(str, sep)
         IN  <<SubSeq(str, 1, i - 1), SubSeq(str, i + Len(sep), Len(str))>>

\* hash(s) of the running process: a value fixed by the process's hash seed
RECURSIVE CodeSum(_)
CodeSum(str) == IF str = <<>> THEN 0 ELSE (Head(str) + CodeSum(Tail(str))) % 10000

py_hash(str) == (hashseed + 1) * CodeSum(str) - hashseed * 7919

TenThousand == 10000

default_rule_name(left_str, right_str) ==
    RuleText_.default_name \o NatStr(Abs(py_hash(left_str \o right_str)) % TenThousand)

\* The free symbols of both sides become the rule's wildcards
_make_wilds_for_names(names) == [n \in names |-> sp_Wild(n)]

_build_rule(left_str, right_str, name, label) ==
    LET left_expr == _sympify_rule_side_(left_str)
        right_expr == _sympify_rule_side_(right_str)
        symbol_names == {sy.name : sy \in free_symbols_(left_expr.val) \cup free_symbols_(right_expr.val)}
        wilds == _make_wilds_for_names(symbol_names)
        replace_map == [sy \in {sp_Symbol(n) : n \in symbol_names} |-> wilds[sy.name]]
    IN  IF ~left_expr.ok THEN left_expr
        ELSE IF ~right_expr.ok THEN right_expr
        ELSE Ok([ name |-> IF name # <<>> THEN name ELSE default_rule_name(left_str, right_str),
                  label |-> IF label # <<>> THEN label ELSE left_str \o RuleText_.arrow \o right_str,
                  left_template |-> left_expr.val,
                  right_template |-> right_expr.val,
                  left_pattern |-> sp_xreplace_(left_expr.val, replace_map),
                  right_pattern |-> sp_xreplace_(right_expr.val, replace_map),
                  wilds |-> wilds ])

\* The name and label of the metadata: of several rule: or label: chunks the last one counts
RECURSIVE meta_field(_, _, _)
meta_field(chunks, key, sofar) ==
    IF chunks = <<>> THEN sofar
    ELSE LET chunk == Strip_(Head(chunks))
         IN  meta_field(Tail(chunks), key,
                        IF StartsWith(Lower(chunk), key)
                            THEN Strip_(SplitOnce_(chunk, RuleText_.colon)[2])
                            ELSE sofar)

_parse_rule_line(line) ==
    LET cut == SplitOnce_(line, RuleText_.hash)
        core == cut[1]
        meta == IF Len(cut) = 2 THEN cut[2] ELSE <<>>
        parts == Split_(core, RuleText_.keyword)
    IN  IF ~Contains_(core, RuleText_.keyword) THEN None
        ELSE IF Len(parts) # 2 THEN None
        ELSE LET built == _build_rule_(Strip_(parts[1]), Strip_(parts[2]),
                                      meta_field(Split_(meta, RuleText_.bar), RuleText_.rule, <<>>),
                                      meta_field(Split_(meta, RuleText_.bar), RuleText_.label, <<>>))
             IN  IF built.ok THEN built.val ELSE None

\* Loading that ends at the first line that yields no rule
RECURSIVE rules_of_lines_until_bad(_)
rules_of_lines_until_bad(lines) ==
    IF lines = <<>> THEN <<>>
    ELSE LET line == Strip_(Head(lines))
         IN  IF line = <<>> \/ StartsWith(line, RuleText_.hash)
                 THEN rules_of_lines_until_bad(Tail(lines))
             ELSE IF _parse_rule_line_(line) = None THEN <<>>
             ELSE <<_parse_rule_line_(line)>> \o rules_of_lines_until_bad(Tail(lines))

\* The rules of the lines of one file, in file order; blank lines, comment
\* lines and lines that yield no rule are skipped
RECURSIVE rules_of_lines(_)
rules_of_lines(lines) ==
    IF lines = <<>> THEN <<>>
    ELSE LET line == Strip_(Head(lines))
             rule == IF line = <<>> \/ StartsWith(line, RuleText_.hash) THEN None
                     ELSE _parse_rule_line_(line)
         IN  (IF rule = None THEN <<>> ELSE <<rule>>) \o rules_of_lines(Tail(lines))

\* A rule file as read_text finds it: its lines, or not readable
File(lines) == [readable |-> TRUE, lines |-> lines]
Unreadable == [readable |-> FALSE, lines |-> <<>>]

\* Loading that ends at the first file that cannot be read
RECURSIVE rules_of_files_until_unreadable(_)
rules_of_files_until_unreadable(files) ==
    IF files = <<>> THEN <<>>
    ELSE IF ~Head(files).readable THEN <<>>
    ELSE rules_of_lines(Head(files).lines) \o rules_of_files_until_unreadable(Tail(files))

\* The rules of the files, in the order glob yields the files; a file that
\* cannot be read is passed over
RECURSIVE rules_of_files(_)
rules_of_files(files) ==
    IF files = <<>> THEN <<>>
    ELSE (IF ~Head(files).readable THEN <<>> ELSE rules_of_lines(Head(files).lines))
         \o rules_of_files(Tail(files))

\* A rules directory: absent, or its rule files
NoDirectory == [exists |-> FALSE, files |-> <<>>]
Directory(files) == [exists |-> TRUE, files |-> files]

_load_rewrite_rules_from_dir(dir) == IF ~dir.exists THEN <<>> ELSE rules_of_files(dir.files)

\* Rule files
MainFile ==
    File(<< RuleFile_.comment, RuleFile_.double_angle, RuleFile_.blank, RuleFile_.like_terms,
            RuleFile_.no_keyword, RuleFile_.conj_exp, RuleFile_.conj_sum, RuleFile_.two_keywords,
            RuleFile_.modulus, RuleFile_.bad_side, RuleFile_.unnamed >>)
\* the double-angle rule three times, under no name and under two names
TrigFile ==
    File(<< RuleFile_.plain_double_angle, RuleFile_.like_terms, RuleFile_.no_keyword,
            RuleFile_.double_angle, RuleFile_.sin2 >>)
MixedFile ==
    File(<< RuleFile_.comment, RuleFile_.square_abs, RuleFile_.modulus, RuleFile_.bad_side,
            RuleFile_.conj_exp, RuleFile_.complete_square >>)
ConjFile == File(<< RuleFile_.conj_sum, RuleFile_.two_keywords, RuleFile_.blank, RuleFile_.unnamed >>)
CommentFile == File(<< RuleFile_.comment >>)
\* two rules under one name, both of which rewrite a squared modulus
SquareFile == File(<< RuleFile_.square_abs, RuleFile_.modulus_as_square >>)

RulesDirectory == Directory(<< MainFile >>)

\* A directory of three files, the second of which cannot be read
SplitDirectory == Directory(<< TrigFile, Unreadable, MixedFile >>)

\* A directory whose one file repeats a rule name
SquareDirectory == Directory(<< SquareFile >>)

\* The directories a process may start in when the catalog alone is examined:
\* none, or up to MaxFiles of these files in any order glob may yield them
RuleFiles == { TrigFile, MixedFile, ConjFile, CommentFile, Unreadable }
Listings ==
    { files \in UNION { [1..n -> RuleFiles] : n \in 0..MaxFiles } :
        \A i, j \in DOMAIN files : i # j => files[i] # files[j] }
Directories == { Directory(files) : files \in Listings } \cup { NoDirectory }

-----------------------------------------------------------------------------
(* Rendering a replacement as markup *)

\* Literal pieces of the markup the server writes.
Xml ==
      \* "<math xmlns="http://www.w3.org/1998/Math/MathML">"
    [ math |-> <<60, 109, 97, 116, 104, 32, 120, 109, 108, 110, 115, 61, 34, 104, 116, 116, 112,
            58, 47, 47, 119, 119, 119, 46, 119, 51, 46, 111, 114, 103, 47, 49, 57, 57, 56, 47,
            77, 97, 116, 104, 47, 77, 97, 116, 104, 77, 76, 34, 62>>,
      \* "<math xmlns="http://www.w3.org/1998/Math/MathML" display="block">"
      math_block |-> <<60, 109, 97, 116, 104, 32, 120, 109, 108, 110, 115, 61, 34, 104, 116, 116,
            112, 58, 47, 47, 119, 119, 119, 46, 119, 51, 46, 111, 114, 103, 47, 49, 57, 57, 56,
            47, 77, 97, 116, 104, 47, 77, 97, 116, 104, 77, 76, 34, 32, 100, 105, 115, 112, 108,
            97, 121, 61, 34, 98, 108, 111, 99, 107, 34, 62>>,
      math_end |-> <<60, 47, 109, 97, 116, 104, 62>>,   \* "</math>"
      ci |-> <<60, 99, 105, 62>>,   \* "<ci>"
      ci_end |-> <<60, 47, 99, 105, 62>>,   \* "</ci>"
      cn |-> <<60, 99, 110, 62>>,   \* "<cn>"
      cn_end |-> <<60, 47, 99, 110, 62>>,   \* "</cn>"
      \* "<apply><power/>"
      power |-> <<60, 97, 112, 112, 108, 121, 62, 60, 112, 111, 119, 101, 114, 47, 62>>,
      \* "<apply><plus/>"
      plus |-> <<60, 97, 112, 112, 108, 121, 62, 60, 112, 108, 117, 115, 47, 62>>,
      \* "<apply><times/>"
      times |-> <<60, 97, 112, 112, 108, 121, 62, 60, 116, 105, 109, 101, 115, 47, 62>>,
      \* "<apply><sin/>"
      sin |-> <<60, 97, 112, 112, 108, 121, 62, 60, 115, 105, 110, 47, 62>>,
      \* "<apply><cos/>"
      cos |-> <<60, 97, 112, 112, 108, 121, 62, 60, 99, 111, 115, 47, 62>>,
      \* "<apply><abs/>"
      abs |-> <<60, 97, 112, 112, 108, 121, 62, 60, 97, 98, 115, 47, 62>>,
      \* "<apply><ci>conjugate</ci>"
      conjugate |-> <<60, 97, 112, 112, 108, 121, 62, 60, 99, 105, 62, 99, 111, 110, 106, 117,
            103, 97, 116, 101, 60, 47, 99, 105, 62>>,
      \* "<apply><exp/>"
      exp |-> <<60, 97, 112, 112, 108, 121, 62, 60, 101, 120, 112, 47, 62>>,
      apply_end |-> <<60, 47, 97, 112, 112, 108, 121, 62>>,   \* "</apply>"
      mi |-> <<60, 109, 105, 62>>,   \* "<mi>"
      mi_end |-> <<60, 47, 109, 105, 62>>,   \* "</mi>"
      mn |-> <<60, 109, 110, 62>>,   \* "<mn>"
      mn_end |-> <<60, 47, 109, 110, 62>>,   \* "</mn>"
      msup |-> <<60, 109, 115, 117, 112, 62>>,   \* "<msup>"
      msup_end |-> <<60, 47, 109, 115, 117, 112, 62>>,   \* "</msup>"
      mrow |-> <<60, 109, 114, 111, 119, 62>>,   \* "<mrow>"
      mrow_end |-> <<60, 47, 109, 114, 111, 119, 62>>,   \* "</mrow>"
      \* "<mo>(</mo>"
      lpar |-> <<60, 109, 111, 62, 40, 60, 47, 109, 111, 62>>,
      \* "<mo>)</mo>"
      rpar |-> <<60, 109, 111, 62, 41, 60, 47, 109, 111, 62>>,
      \* "<mo>+</mo>"
      mo_plus |-> <<60, 109, 111, 62, 43, 60, 47, 109, 111, 62>>,
      \* "<mo>?</mo>"
      mo_dot |-> <<60, 109, 111, 62, 183, 60, 47, 109, 111, 62>>,
      \* "<mo>|</mo>"
      bar |-> <<60, 109, 111, 62, 124, 60, 47, 109, 111, 62>>,
      \* "<mi>sin</mi>"
      mi_sin |-> <<60, 109, 105, 62, 115, 105, 110, 60, 47, 109, 105, 62>>,
      \* "<mi>cos</mi>"
      mi_cos |-> <<60, 109, 105, 62, 99, 111, 115, 60, 47, 109, 105, 62>>,
      \* "<mi>conj</mi>"
      mi_conj |-> <<60, 109, 105, 62, 99, 111, 110, 106, 60, 47, 109, 105, 62>>,
      mtext |-> <<60, 109, 116, 101, 120, 116, 62>>,   \* "<mtext>"
      mtext_end |-> <<60, 47, 109, 116, 101, 120, 116, 62>>,   \* "</mtext>"
      \* "<mtext>sin(2x)</mtext>"
      sin2x |-> <<60, 109, 116, 101, 120, 116, 62, 115, 105, 110, 40, 50, 120, 41, 60, 47, 109,
            116, 101, 120, 116, 62>>,
      sin2x_open |-> <<115, 105, 110, 40, 50, 120>>,   \* "sin(2x"
      \* "<mn>0</mn>"
      zero |-> <<60, 109, 110, 62, 48, 60, 47, 109, 110, 62>>,
      \* "<mn>1</mn>"
      one |-> <<60, 109, 110, 62, 49, 60, 47, 109, 110, 62>> ]

\* The labels of the options of the algorithmic generators.
Label ==
      \* "Complete the square: ax^2+bx+c ? a(x + b/(2a))^2 - b^2/(4a) + c"
    [ complete_square |-> <<67, 111, 109, 112, 108, 101, 116, 101, 32, 116, 104, 101, 32, 115,
            113, 117, 97, 114, 101, 58, 32, 97, 120, 94, 50, 43, 98, 120, 43, 99, 32, 8594, 32,
            97, 40, 120, 32, 43, 32, 98, 47, 40, 50, 97, 41, 41, 94, 50, 32, 45, 32, 98, 94, 50,
            47, 40, 52, 97, 41, 32, 43, 32, 99>>,
      \* "Conjugation is linear: conj(a+b) = conj(a) + conj(b)"
      conjugate_linearity |-> <<67, 111, 110, 106, 117, 103, 97, 116, 105, 111, 110, 32, 105,
            115, 32, 108, 105, 110, 101, 97, 114, 58, 32, 99, 111, 110, 106, 40, 97, 43, 98, 41,
            32, 61, 32, 99, 111, 110, 106, 40, 97, 41, 32, 43, 32, 99, 111, 110, 106, 40, 98,
            41>>,
      \* "Conjugation distributes over product: conj(ab) = conj(a)?conj(b)"
      conjugate_multiplicative |-> <<67, 111, 110, 106, 117, 103, 97, 116, 105, 111, 110, 32,
            100, 105, 115, 116, 114, 105, 98, 117, 116, 101, 115, 32, 111, 118, 101, 114, 32,
            112, 114, 111, 100, 117, 99, 116, 58, 32, 99, 111, 110, 106, 40, 97, 98, 41, 32, 61,
            32, 99, 111, 110, 106, 40, 97, 41, 183, 99, 111, 110, 106, 40, 98, 41>>,
      \* "Conjugation is linear (reverse): conj(a)+conj(b) ? conj(a+b)"
      conjugate_linearity_reverse |-> <<67, 111, 110, 106, 117, 103, 97, 116, 105, 111, 110, 32,
            105, 115, 32, 108, 105, 110, 101, 97, 114, 32, 40, 114, 101, 118, 101, 114, 115, 101,
            41, 58, 32, 99, 111, 110, 106, 40, 97, 41, 43, 99, 111, 110, 106, 40, 98, 41, 32,
            8594, 32, 99, 111, 110, 106, 40, 97, 43, 98, 41>>,
      \* "Conjugation over product (reverse): conj(a)?conj(b) ? conj(ab)"
      conjugate_multiplicative_reverse |-> <<67, 111, 110, 106, 117, 103, 97, 116, 105, 111, 110,
            32, 111, 118, 101, 114, 32, 112, 114, 111, 100, 117, 99, 116, 32, 40, 114, 101, 118,
            101, 114, 115, 101, 41, 58, 32, 99, 111, 110, 106, 40, 97, 41, 183, 99, 111, 110,
            106, 40, 98, 41, 32, 8594, 32, 99, 111, 110, 106, 40, 97, 98, 41>>,
      \* "Differentiate with respect to "
      differentiate |-> <<68, 105, 102, 102, 101, 114, 101, 110, 116, 105, 97, 116, 101, 32, 119,
            105, 116, 104, 32, 114, 101, 115, 112, 101, 99, 116, 32, 116, 111, 32>> ]

Concat(parts) == Join_(parts, <<>>)

\* e.as_ordered_terms() and e.as_ordered_factors()
as_ordered_terms(e) == IF e.h = "Add" THEN e.args ELSE <<e>>
as_ordered_factors(e) == IF e.h = "Mul" THEN e.args ELSE <<e>>

\* The structural markup built node by node; what it does not know becomes
\* an identifier holding the infix text
RECURSIVE build(_)
build(e) ==
    IF e.h \in {"Symbol", "Wild"} THEN Xml_.ci \o sp_sstr_(e) \o Xml_.ci_end
    ELSE IF e.h = "Integer" THEN Xml_.cn \o IntStr(e.p) \o Xml_.cn_end
    ELSE IF e.h = "Pow" THEN Xml_.power \o build_(e.args[1]) \o build_(e.args[2]) \o Xml_.apply_end
    ELSE IF e.h = "Add"
        THEN Xml_.plus \o Concat([i \in DOMAIN e.args |-> build_(as_ordered_terms(e)[i])])
             \o Xml_.apply_end
    ELSE IF e.h = "Mul"
        THEN Xml_.times \o Concat([i \in DOMAIN e.args |-> build_(as_ordered_factors(e)[i])])
             \o Xml_.apply_end
    ELSE IF IsFn(e, Cls_.sin) THEN Xml_.sin \o build_(e.args[1]) \o Xml_.apply_end
    ELSE IF IsFn(e, Cls_.cos) THEN Xml_.cos \o build_(e.args[1]) \o Xml_.apply_end
    ELSE IF IsFn(e, Cls_.Abs) THEN Xml_.abs \o build_(e.args[1]) \o Xml_.apply_end
    ELSE IF IsFn(e, Cls_.conjugate) THEN Xml_.conjugate \o build_(e.args[1]) \o Xml_.apply_end
    ELSE IF IsFn(e, Cls_.exp) THEN Xml_.exp \o build_(e.args[1]) \o Xml_.apply_end
    ELSE Xml_.ci \o sp_sstr_(e) \o Xml_.ci_end

_sympy_to_content_mathml_basic(e) == Xml_.math \o build_(e) \o Xml_.math_end

\* The display markup without the <math> wrapper
RECURSIVE pres_basic_inner(_)
\* A power written with its base as it comes, a sum or not
pres_power_bare(e) ==
    Xml_.msup
    \o Xml_.mrow \o pres_basic_inner_(e.args[1]) \o Xml_.mrow_end
    \o pres_basic_inner_(e.args[2]) \o Xml_.msup_end

pres_power(e) ==
    Xml_.msup
    \o (IF e.args[1].h = "Add"
            THEN Xml_.mrow \o Xml_.lpar \o pres_basic_inner_(e.args[1]) \o Xml_.rpar \o Xml_.mrow_end
            ELSE Xml_.mrow \o pres_basic_inner_(e.args[1]) \o Xml_.mrow_end)
    \o pres_basic_inner_(e.args[2]) \o Xml_.msup_end

pres_terms(e) ==
    Xml_.mrow \o Join_([i \in DOMAIN e.args |-> pres_basic_inner_(as_ordered_terms(e)[i])], Xml_.mo_plus)
    \o Xml_.mrow_end

pres_call(name, e) ==
    Xml_.mrow \o name \o Xml_.lpar \o pres_basic_inner_(e.args[1]) \o Xml_.rpar \o Xml_.mrow_end

pres_basic_inner(e) ==
    IF e.h \in {"Symbol", "Wild"} THEN Xml_.mi \o sp_sstr_(e) \o Xml_.mi_end
    ELSE IF e.h = "Integer" THEN Xml_.mn \o IntStr(e.p) \o Xml_.mn_end
    ELSE IF e.h = "Pow" THEN pres_power(e)
    ELSE IF e.h = "Add" THEN pres_terms(e)
    ELSE IF e.h = "Mul"
        THEN Xml_.mrow
             \o Join_([i \in DOMAIN e.args |-> pres_basic_inner_(as_ordered_factors(e)[i])], Xml_.mo_dot)
             \o Xml_.mrow_end
    ELSE IF IsFn(e, Cls_.sin) THEN pres_call(Xml_.mi_sin, e)
    ELSE IF IsFn(e, Cls_.cos) THEN pres_call(Xml_.mi_cos, e)
    ELSE Xml_.mtext \o sp_sstr_(e) \o Xml_.mtext_end

\* The display markup of a whole replacement: at the top a product wraps
\* its first factor, and |.| and conj are written
pres_basic(e) ==
    Xml_.math_block
    \o (IF e.h = "Mul"
            THEN Xml_.mrow \o Xml_.mrow \o pres_basic_inner_(e.args[1]) \o Xml_.mrow_end
                 \o Concat([i \in 1..(Len(e.args) - 1) |->
                              Xml_.mo_dot \o pres_basic_inner_(as_ordered_factors(e)[i + 1])])
                 \o Xml_.mrow_end
        ELSE IF IsFn(e, Cls_.Abs)
            THEN Xml_.mrow \o Xml_.bar \o pres_basic_inner_(e.args[1]) \o Xml_.bar \o Xml_.mrow_end
        ELSE IF IsFn(e, Cls_.conjugate) THEN pres_call(Xml_.mi_conj, e)
        ELSE pres_basic_inner_(e))
    \o Xml_.math_end

\* p_str.replace('</math>', '<mtext>sin(2x)</mtext></math>')
RECURSIVE ReplaceAll(_, _, _)
ReplaceAll(str, old, new) ==
    IF ~Contains_(str, old) THEN str
    ELSE LET i == FindFirst_(str, old)
         IN  SubSeq(str, 1, i - 1) \o new \o ReplaceAll(SubSeq(str, i + Len(old), Len(str)), old, new)

\* The engine's own markup printer hands back text where the server goes on
\* as with an element tree, so the server always ends in its fallback: the
\* infix text in one identifier, and the display markup of pres_basic
_sympy_to_mathml_strings(e) ==
    LET c_str == Xml_.math \o Xml_.ci \o sp_sstr_(e) \o Xml_.ci_end \o Xml_.math_end
        p_str == pres_basic_(e)
        is_sin_2x == /\ IsFn(e, Cls_.sin)
                     /\ sp_Add_(<<e.args[1], sp_Mul_(<<sp_Integer(-2), sp_Symbol(Nm_.x)>>)>>) = Zero
                     /\ ~Contains_(p_str, Xml_.sin2x_open)
    IN  [ content |-> c_str,
          presentation |-> IF is_sin_2x
                               THEN ReplaceAll(p_str, Xml_.math_end, Xml_.sin2x \o Xml_.math_end)
                               ELSE p_str ]

-----------------------------------------------------------------------------
(* The suggestion engine: options of the catalog rules *)

\* Assumptions are absent (None) or a map from variable names to words
Assume(map) == [kind |-> "dict", map |-> map]
NoAssumptions(assumptions) == assumptions = None \/ DOMAIN assumptions.map = {}
dict_get(assumptions, key) == IF key \in DOMAIN assumptions.map THEN assumptions.map[key] ELSE <<>>

\* An option.  replacement is the expression the two markups were written from; it is
\* kept beside them to state properties of the replacement and is not sent to the client
RewriteOption(id, label, ruleName, replacement, markup) ==
    [ id |-> id, label |-> label, ruleName |-> ruleName,
      replacementContentMathML |-> markup.content,
      replacementPresentationMathML |-> markup.presentation,
      replacement |-> replacement ]

isinstance_Symbol(e) == e.h \in {"Symbol", "Wild"}

rule_allowed_ungated(rule, match_map, assumptions) == TRUE

_rule_allowed(rule, match_map, assumptions) ==
    IF NoAssumptions(assumptions) THEN rule.name # RuleNm_.conjugate_exp_i_theta
    ELSE IF rule.name = RuleNm_.conjugate_exp_i_theta
        THEN /\ RuleNm_.theta \in DOMAIN rule.wilds
             /\ RuleNm_.theta \in DOMAIN match_map.map
             /\ isinstance_Symbol(match_map.map[RuleNm_.theta])
             /\ Lower(dict_get(assumptions, match_map.map[RuleNm_.theta].name))
                    \in {Nm_.real, Nm_.positive}
    ELSE TRUE

\* template.xreplace(subs) with the matched wildcards as symbols
_apply_mapping(template, wilds, match_map) ==
    sp_xreplace_(template,
                [sy \in {sp_Symbol(n) : n \in DOMAIN wilds \cap DOMAIN match_map.map}
                    |-> match_map.map[sy.name]])

\* Every node rebuilt by its constructor, from the leaves up
RECURSIVE Evaluated(_)
Evaluated(e) ==
    IF IsAtom(e) THEN e ELSE Rebuild_(e, [i \in DOMAIN e.args |-> Evaluated_(e.args[i])])

\* sp.simplify(e): the evaluated form; the expressions met here have no simpler one
sp_simplify(e) == Evaluated_(e)

same_srepr(a, b) == sp_srepr_(a) = sp_srepr_(b)

\* No guard on what x matched
square_guard_never(rule, m) == FALSE

\* The guard of the complete_square rule: x must have matched a plain variable
square_guard_fails(rule, m) ==
    /\ rule.name = RuleNm_.complete_square
    /\ RuleNm_.x \in DOMAIN rule.wilds
    /\ RuleNm_.x \in DOMAIN m.map
    /\ ~isinstance_Symbol(m.map[RuleNm_.x])

rule_replacement(rule, template, m) ==
    LET replacement == _apply_mapping_(template, rule.wilds, m)
    IN  IF rule.name = RuleNm_.complete_square THEN sp_simplify_(replacement) ELSE replacement

forward_shown(rule, same) == ~same

reverse_shown(rule, same) == ~same \/ rule.name = RuleNm_.combine_like_terms_add

\* The forward try block of one rule: the options it appends, or the
\* exception that ends it
forward_try(r, expr, assumptions) ==
    LET m1 == sp_match_(expr, r.left_pattern)
    IN  IF m1 = None THEN Ok(<<>>)
        ELSE IF ~_rule_allowed_(r, m1, assumptions) THEN Ok(<<>>)
        ELSE IF square_guard_fails(r, m1) THEN Raised
        ELSE LET replacement == rule_replacement(r, r.right_template, m1)
             IN  IF forward_shown(r, same_srepr(replacement, expr))
                     THEN Ok(<<RewriteOption(r.name \o RuleNm_.fwd, r.label, r.name, replacement,
                                             _sympy_to_mathml_strings_(replacement))>>)
                     ELSE Ok(<<>>)

\* and the reverse try block
reverse_try(r, expr, assumptions) ==
    LET m2 == sp_match_(expr, r.right_pattern)
    IN  IF m2 = None THEN Ok(<<>>)
        ELSE IF ~_rule_allowed_(r, m2, assumptions) THEN Ok(<<>>)
        ELSE IF square_guard_fails(r, m2) THEN Raised
        ELSE LET replacement == rule_replacement(r, r.left_template, m2)
             IN  IF reverse_shown(r, same_srepr(replacement, expr))
                     THEN Ok(<<RewriteOption(r.name \o RuleNm_.rev, r.label \o RuleText_.reverse,
                                             r.name, replacement,
                                             _sympy_to_mathml_strings_(replacement))>>)
                     ELSE Ok(<<>>)

\* except Exception: pass
except_pass(attempt) == IF attempt.ok THEN attempt.val ELSE <<>>

forward_options(r, expr, assumptions) == except_pass(forward_try(r, expr, assumptions))
reverse_options(r, expr, assumptions) == except_pass(reverse_try(r, expr, assumptions))

\* One try block around both directions of a rule
RECURSIVE options_of_rules_one_try(_, _, _)
options_of_rules_one_try(rules, expr, assumptions) ==
    IF rules = <<>> THEN <<>>
    ELSE (IF forward_try(Head(rules), expr, assumptions).ok
              THEN forward_options_(Head(rules), expr, assumptions)
                   \o reverse_options_(Head(rules), expr, assumptions)
              ELSE <<>>)
         \o options_of_rules_one_try(Tail(rules), expr, assumptions)

\* The reverse direction tried only where the forward pattern did not match
RECURSIVE options_of_rules_either(_, _, _)
options_of_rules_either(rules, expr, assumptions) ==
    IF rules = <<>> THEN <<>>
    ELSE (IF sp_match_(expr, Head(rules).left_pattern) # None
              THEN forward_options_(Head(rules), expr, assumptions)
              ELSE reverse_options_(Head(rules), expr, assumptions))
         \o options_of_rules_either(Tail(rules), expr, assumptions)

\* The loop over the catalog: each rule forward, then in reverse
RECURSIVE options_of_rules(_, _, _)
options_of_rules(rules, expr, assumptions) ==
    IF rules = <<>> THEN <<>>
    ELSE forward_options_(Head(rules), expr, assumptions)
         \o reverse_options_(Head(rules), expr, assumptions)
         \o options_of_rules(Tail(rules), expr, assumptions)

\* rules: the module's LOADED_RULES as the call reads it
_generate_options_from_loaded_rules(rules, expr, assumptions) ==
    options_of_rules(rules, expr, assumptions)

-----------------------------------------------------------------------------
(* The suggestion engine: the algorithmic generators *)

sp_neg(e) == sp_Mul_(<<sp_Integer(-1), e>>)
sp_sub(a, b) == sp_Add_(<<a, sp_neg_(b)>>)
sp_div(a, b) == sp_Mul_(<<a, sp_Pow_(b, sp_Integer(-1))>>)

\* A polynomial in var as its coefficients, the constant one first
PolyAdd(p, q) ==
    [i \in 1..(IF Len(p) > Len(q) THEN Len(p) ELSE Len(q)) |->
        sp_Add_(<<IF i <= Len(p) THEN p[i] ELSE Zero, IF i <= Len(q) THEN q[i] ELSE Zero>>)]

PolyMul(p, q) ==
    [k \in 1..(Len(p) + Len(q) - 1) |->
        sp_Add_([i \in 1..Len(p) |->
                   IF k - i + 1 \in 1..Len(q) THEN sp_Mul_(<<p[i], q[k - i + 1]>>) ELSE Zero])]

RECURSIVE PolySum(_)
PolySum(ps) == IF ps = <<>> THEN <<Zero>> ELSE PolyAdd(Head(ps), PolySum(Tail(ps)))

RECURSIVE PolyProd(_)
PolyProd(ps) == IF ps = <<>> THEN <<One>> ELSE PolyMul(Head(ps), PolyProd(Tail(ps)))

\* e is a polynomial in var: var occurs only as itself, in sums and products
\* and under natural-number powers
RECURSIVE IsPolynomial(_, _)
IsPolynomial(e, var) ==
    \/ var \notin free_symbols_(e)
    \/ e = var
    \/ e.h \in {"Add", "Mul"} /\ \A i \in DOMAIN e.args : IsPolynomial_(e.args[i], var)
    \/ e.h = "Pow" /\ IsInteger(e.args[2]) /\ e.args[2].p >= 0 /\ IsPolynomial_(e.args[1], var)

RECURSIVE Coefficients(_, _)
Coefficients(e, var) ==
    IF var \notin free_symbols_(e) THEN <<e>>
    ELSE IF e = var THEN <<Zero, One>>
    ELSE IF e.h = "Add" THEN PolySum([i \in DOMAIN e.args |-> Coefficients_(e.args[i], var)])
    ELSE IF e.h = "Mul" THEN PolyProd([i \in DOMAIN e.args |-> Coefficients_(e.args[i], var)])
    ELSE PolyProd([i \in 1..e.args[2].p |-> Coefficients_(e.args[1], var)])

\* sp.Poly(expr, var): None when expr is no polynomial in var
sp_Poly(expr, var) == IF IsPolynomial_(expr, var) THEN Ok(Coefficients_(expr, var)) ELSE Raised

degree(p) ==
    IF \A i \in DOMAIN p : p[i] = Zero THEN -1
    ELSE (CHOOSE i \in DOMAIN p : p[i] # Zero /\ \A j \in DOMAIN p : j > i => p[j] = Zero) - 1

\* p.all_coeffs(): from the leading coefficient down to the constant one
all_coeffs(p) == [i \in 1..(degree(p) + 1) |-> p[degree(p) + 2 - i]]

\* The variable with the first name, x or not
square_variable_first(expr) ==
    CHOOSE v \in free_symbols_(expr) :
        \A w \in free_symbols_(expr) \ {v} : StrLess(v.name, w.name)

\* The variable to complete the square in: x if it is free, else the first name
square_variable(expr) ==
    IF sp_Symbol(Nm_.x) \in free_symbols_(expr) THEN sp_Symbol(Nm_.x)
    ELSE CHOOSE v \in free_symbols_(expr) :
             \A w \in free_symbols_(expr) \ {v} : StrLess(v.name, w.name)

\* a*(x + b/(2*a))**2 - b**2/(4*a) + c
completed_square(a, b, c, x) ==
    sp_Add_(<<sp_sub_(sp_Mul_(<<a, sp_Pow_(sp_Add_(<<x, sp_div_(b, sp_Mul_(<<Two, a>>))>>), Two)>>),
                    sp_div_(sp_Pow_(b, Two), sp_Mul_(<<sp_Integer(4), a>>))),
             c>>)

complete_square_options(expr) ==
    IF free_symbols_(expr) = {} THEN <<>>
    ELSE LET var == square_variable(expr)
             p == sp_Poly(expr, var)
         IN  IF ~p.ok THEN <<>>
             ELSE IF degree(p.val) # 2 THEN <<>>
             ELSE LET coeffs == all_coeffs(p.val)
                      comp_simpl == sp_simplify_(completed_square(coeffs[1], coeffs[2], coeffs[3], var))
                  IN  IF same_srepr(comp_simpl, expr) THEN <<>>
                      ELSE <<RewriteOption(RuleNm_.complete_square_auto, Label_.complete_square,
                                           RuleNm_.complete_square, comp_simpl,
                                           _sympy_to_mathml_strings_(comp_simpl))>>

\* The head reads as a conjugation: the engine's conjugate, or a function with conj in its name
is_conj_head(expr) == expr.h = "Fn" /\ Contains_(Lower(expr.f), Fn_.conj)

all_conjugates(es) == es # <<>> /\ \A i \in DOMAIN es : IsFn(es[i], Cls_.conjugate)

conjugate_options(expr) ==
    IF is_conj_head(expr) /\ Len(expr.args) = 1
        THEN LET inner == expr.args[1]
             IN  IF inner.h = "Add"
                     THEN LET repl == sp_Add_([i \in DOMAIN inner.args |->
                                                 sp_conjugate_(as_ordered_terms(inner)[i])])
                          IN  <<RewriteOption(RuleNm_.conjugate_linearity_auto, Label_.conjugate_linearity,
                                              RuleNm_.conjugate_linearity, repl,
                                              _sympy_to_mathml_strings_(repl))>>
                 ELSE IF inner.h = "Mul"
                     THEN LET repl == sp_Mul_([i \in DOMAIN inner.args |->
                                                 sp_conjugate_(as_ordered_factors(inner)[i])])
                          IN  <<RewriteOption(RuleNm_.conjugate_multiplicative_auto,
                                              Label_.conjugate_multiplicative,
                                              RuleNm_.conjugate_multiplicative, repl,
                                              _sympy_to_mathml_strings_(repl))>>
                 ELSE <<>>
    ELSE IF expr.h = "Add" /\ all_conjugates(as_ordered_terms(expr))
        THEN LET repl == sp_conjugate_(sp_Add_([i \in DOMAIN expr.args |-> expr.args[i].args[1]]))
             IN  <<RewriteOption(RuleNm_.conjugate_linearity_reverse_auto,
                                 Label_.conjugate_linearity_reverse,
                                 RuleNm_.conjugate_linearity, repl, _sympy_to_mathml_strings_(repl))>>
    ELSE IF expr.h = "Mul" /\ all_conjugates(as_ordered_factors(expr))
        THEN LET repl == sp_conjugate_(sp_Mul_([i \in DOMAIN expr.args |-> expr.args[i].args[1]]))
             IN  <<RewriteOption(RuleNm_.conjugate_multiplicative_reverse_auto,
                                 Label_.conjugate_multiplicative_reverse,
                                 RuleNm_.conjugate_multiplicative, repl, _sympy_to_mathml_strings_(repl))>>
    ELSE <<>>

TrigClasses == {Cls_.sin, Cls_.cos, Cls_.tan, Cls_.cot, Cls_.sec, Cls_.csc}

\* d e / d x, as doit() evaluates it; the derivative of an undefined function,
\* of |.| and of a conjugate stays a Derivative
RECURSIVE diff(_, _)
diff_call(e, x) ==
    LET u == e.args[1]
        du == diff_(u, x)
    IN  IF e.f = Cls_.sin THEN sp_Mul_(<<sp_cos(u), du>>)
        ELSE IF e.f = Cls_.cos THEN sp_Mul_(<<sp_Integer(-1), sp_sin(u), du>>)
        ELSE IF e.f = Cls_.tan THEN sp_Mul_(<<sp_Add_(<<One, sp_Pow_(sp_tan(u), Two)>>), du>>)
        ELSE IF e.f = Cls_.cot
            THEN sp_Mul_(<<sp_Add_(<<sp_Integer(-1), sp_neg_(sp_Pow_(sp_cot(u), Two))>>), du>>)
        ELSE IF e.f = Cls_.sec THEN sp_Mul_(<<sp_sec(u), sp_tan(u), du>>)
        ELSE IF e.f = Cls_.csc THEN sp_Mul_(<<sp_Integer(-1), sp_csc(u), sp_cot(u), du>>)
        ELSE IF e.f = Cls_.exp THEN sp_Mul_(<<e, du>>)
        ELSE IF e.f = Cls_.log THEN sp_div_(du, u)
        ELSE Raw("Derivative", <<e, x>>)

diff(e, x) ==
    IF e = x THEN One
    ELSE IF x \notin free_symbols_(e) THEN Zero
    ELSE IF e.h = "Add" THEN sp_Add_([i \in DOMAIN e.args |-> diff_(e.args[i], x)])
    ELSE IF e.h = "Mul"
        THEN sp_Add_([i \in DOMAIN e.args |->
                        sp_Mul_([j \in DOMAIN e.args |-> IF j = i THEN diff_(e.args[j], x) ELSE e.args[j]])])
    ELSE IF e.h = "Pow"
        THEN LET b == e.args[1]
                 n == e.args[2]
             IN  IF x \notin free_symbols_(n)
                     THEN sp_Mul_(<<n, sp_Pow_(b, sp_Add_(<<n, sp_Integer(-1)>>)), diff_(b, x)>>)
                     ELSE sp_Mul_(<<e, sp_Add_(<<sp_Mul_(<<diff_(n, x), sp_log(b)>>),
                                               sp_Mul_(<<n, diff_(b, x), sp_Pow_(b, sp_Integer(-1))>>)>>)>>)
    ELSE IF e.h = "Fn" THEN diff_call(e, x)
    ELSE Raw("Derivative", <<e, x>>)

\* expr.doit() of a derivative
doit(expr) == IF expr.h = "Derivative" THEN diff_(expr.args[1], expr.args[2]) ELSE expr

\* evaluated.atoms(sin, cos, ...) is not empty
RECURSIVE has_trig(_)
has_trig(e) ==
    IF IsAtom(e) THEN FALSE
    ELSE (e.h = "Fn" /\ e.f \in TrigClasses) \/ \E i \in DOMAIN e.args : has_trig(e.args[i])

\* sp.expand_trig(e): the sine and cosine of a doubled argument are written out
RECURSIVE sp_expand_trig(_)
sp_expand_trig(e) ==
    IF IsAtom(e) THEN e
    ELSE LET args == [i \in DOMAIN e.args |-> sp_expand_trig_(e.args[i])]
             doubled == /\ e.h = "Fn" /\ e.f \in {Cls_.sin, Cls_.cos}
                        /\ args[1].h = "Mul" /\ args[1].args[1] = Two
             u == sp_Mul_(Tail(args[1].args))
         IN  IF doubled /\ e.f = Cls_.sin THEN sp_Mul_(<<Two, sp_sin(u), sp_cos(u)>>)
             ELSE IF doubled
                 THEN sp_Add_(<<sp_Mul_(<<Two, sp_Pow_(sp_cos(u), Two)>>), sp_Integer(-1)>>)
             ELSE Rebuild_(e, args)

\* sp.powsimp(e, force=True): powers of one base are collected, which the
\* constructors have done already
sp_powsimp(e) == Evaluated_(e)

derivative_evaluated(expr) ==
    LET evaluated == doit_(expr)
    IN  IF has_trig(evaluated) THEN sp_expand_trig_(evaluated) ELSE sp_powsimp(sp_simplify_(evaluated))

\* The derivative generator puts its result out whatever it is
derivative_options(expr) ==
    IF expr.h # "Derivative" THEN <<>>
    ELSE <<RewriteOption(RuleNm_.differentiate_do_it,
                         Label_.differentiate \o sp_sstr_(expr.args[2]), RuleNm_.differentiate,
                         derivative_evaluated(expr),
                         [ content |-> _sympy_to_content_mathml_basic_(derivative_evaluated(expr)),
                           presentation |->
                               _sympy_to_mathml_strings_(derivative_evaluated(expr)).presentation ])>>

\* Priorities of the rules whose option wins among equal replacements
priority(ruleName) ==
    IF ruleName \in {RuleNm_.conjugate_linearity, RuleNm_.conjugate_multiplicative, RuleNm_.modulus_square}
        THEN 3
    ELSE IF ruleName \in {RuleNm_.trig_double_angle_sin, RuleNm_.trig_identity_sin2,
                          RuleNm_.complete_square}
        THEN 2
    ELSE 0

\* A key that tells the options of different sources apart
dedup_key_by_source(opt) == Strip_(opt.replacementContentMathML) \o opt.id

dedup_key(opt) == Strip_(opt.replacementContentMathML)

dedup_keep_all(options, chosen) == chosen \o options

RECURSIVE dedup_last_wins(_, _)
dedup_last_wins(options, chosen) ==
    IF options = <<>> THEN chosen
    ELSE LET opt == Head(options)
             at == {i \in DOMAIN chosen : dedup_key(chosen[i]) = dedup_key(opt)}
             i == CHOOSE j \in at : TRUE
         IN  dedup_last_wins(Tail(options),
                             IF at = {} THEN Append(chosen, opt)
                             ELSE IF priority(opt.ruleName) >= priority(chosen[i].ruleName)
                                 THEN [chosen EXCEPT ![i] = opt]
                             ELSE chosen)

\* One option per replacement text, at the place of the first with that
\* text; a later one takes the place only with a higher priority
RECURSIVE dedup(_, _)
dedup(options, chosen) ==
    IF options = <<>> THEN chosen
    ELSE LET opt == Head(options)
             at == {i \in DOMAIN chosen : dedup_key(chosen[i]) = dedup_key(opt)}
             i == CHOOSE j \in at : TRUE
         IN  dedup_(Tail(options),
                   IF at = {} THEN Append(chosen, opt)
                   ELSE IF priority(opt.ruleName) > priority(chosen[i].ruleName)
                       THEN [chosen EXCEPT ![i] = opt]
                   ELSE chosen)

_generate_rewrite_options(rules, expr, assumptions) ==
    dedup_(_generate_options_from_loaded_rules_(rules, expr, assumptions)
              \o complete_square_options_(expr)
              \o conjugate_options_(expr)
              \o derivative_options_(expr),
          <<>>)

-----------------------------------------------------------------------------
(* Spec: the server.  The catalog is loaded when the process starts;       *)
(* requests to /rewriteOptions are served one by one, each from its own    *)
(* body alone; _generate_rewrite_options is also called on its own.        *)

\* Validation of a body against the request schema: the two declared fields are
\* kept and any other field of the body is dropped
RewriteOptionsRequest(body) ==
    [contentMathML |-> body.contentMathML, selectedNodeId |-> body.selectedNodeId]

\* getattr(request, name, None)
getattr_assumptions(req) == IF "assumptions" \in DOMAIN req THEN req.assumptions ELSE None

HTTPException(status_code, detail) == [status |-> status_code, detail |-> detail]
RewriteOptionsResponse(options) == [status |-> 200, options |-> options]

\* A failure to read the markup ends the request before any option is generated
rejected_quietly(err) ==
    [ response |-> RewriteOptionsResponse(<<>>), gen_in |-> None, gen_out |-> None ]

rejected(err) ==
    [ response |-> HTTPException(400, Msg_.invalid \o err), gen_in |-> None, gen_out |-> None ]

target_if_found(ast_with_ids, node_id) == _find_node_by_id_(ast_with_ids, node_id)

\* _find_node_by_id(ast_with_ids, node_id) or ast_with_ids
target_of(ast_with_ids, node_id) == OrElse(_find_node_by_id_(ast_with_ids, node_id), ast_with_ids)

\* The handler of POST /rewriteOptions, for a validated request
rewrite_options(rules, req) ==
    LET ast == _parse_content_mathml_to_ast_(req.contentMathML)
    IN  IF ~ast.ok THEN rejected(ast.err)
        ELSE LET expr == _ast_to_sympy_(target_of(_with_ids_(ast.val), req.selectedNodeId))
                 assumptions == getattr_assumptions(req)
                 options == _generate_rewrite_options_(rules, expr, assumptions)
             IN  [ response |-> RewriteOptionsResponse(options),
                   gen_in |-> [expr |-> expr, assumptions |-> assumptions],
                   gen_out |-> options ]

\* The handler's statements on a document that was parsed: ids, the node
\* selected or else the whole tree, and its conversion
located_target(ast, node_id) == _ast_to_sympy_(target_of(_with_ids_(ast), node_id))

\* The list `options` of _generate_rewrite_options when every source has
\* appended to it and nothing has been dropped yet
options_before_dedup(rules, expr, assumptions) ==
    _generate_options_from_loaded_rules_(rules, expr, assumptions)
        \o complete_square_options_(expr)
        \o conjugate_options_(expr)
        \o derivative_options_(expr)

\* What a body may carry as assumptions, beside carrying none
ThetaReal == Assume(Nm.theta :> Nm.real)
BodyAssumptions == { None, ThetaReal, Assume(Nm.theta :> Nm.complex) }

\* What _generate_rewrite_options may be given as assumptions
Assumptions ==
    { None, Assume(NoBinding), ThetaReal, Assume(Nm.theta :> Nm.Real),
      Assume(Nm.theta :> Nm.complex), Assume(Nm.x :> Nm.positive) }

\* The node ids a body may carry for a document
BodyIds(doc) ==
    LET ast == _parse_content_mathml_to_ast(doc)
    IN  IF ast.ok THEN ProbeIds(_with_ids(ast.val)) ELSE {Nm.root}

\* Targets beside those of the documents: exp(-I*theta), exp(-I*x), f(a + b) for a function
\* named conj, a conjugate of a sum and of a product left unevaluated, and Abs(z)**2
MinusI == Raw("Mul", <<sp_Integer(-1), sp_I>>)
OtherTargets ==
    { sp_exp(sp_Mul_(<<MinusI, Sym(Nm_.theta)>>)),
      sp_exp(sp_Mul_(<<MinusI, Sym(Nm_.x)>>)),
      sp_Function(Fn_.conj, sp_Add_(<<Sym(Nm_.a), Sym(Nm_.b)>>)),
      RawFn(Cls_.conjugate, sp_Add_(<<Sym(Nm_.a), Sym(Nm_.b)>>)),
      RawFn(Cls_.conjugate, sp_Mul_(<<Sym(Nm_.a), Sym(Nm_.b)>>)),
      sp_Pow_(sp_Abs(Sym(Nm_.z)), Two) }

Targets == { _ast_to_sympy_(t) : t \in Trees } \cup OtherTargets

\* Call(f, ...): the operator named f, applied to as many arguments as it takes
Call(f, a1, a2, a3, a4) ==
    CASE f = "sp_srepr" -> sp_srepr(a1)
      [] f = "sp_sstr" -> sp_sstr(a1)
      [] f = "SortExprs" -> SortExprs(a1)
      [] f = "Flatten" -> Flatten(a1, a2)
      [] f = "NumPow" -> NumPow(a1, a2)
      [] f = "sp_Add" -> sp_Add(a1)
      [] f = "sp_Mul" -> sp_Mul(a1)
      [] f = "sp_Pow" -> sp_Pow(a1, a2)
      [] f = "sp_Derivative" -> sp_Derivative(a1, a2)
      [] f = "sp_conjugate" -> sp_conjugate(a1)
      [] f = "sp_Fn" -> sp_Fn(a1, a2)
      [] f = "Rebuild" -> Rebuild(a1, a2)
      [] f = "sp_xreplace" -> sp_xreplace(a1, a2)
      [] f = "sp_match" -> sp_match(a1, a2)
      [] f = "match_from" -> match_from(a1, a2, a3)
      [] f = "_ast_to_sympy" -> _ast_to_sympy(a1)
      [] f = "_sympify_rule_side" -> _sympify_rule_side(a1)
      [] f = "_build_rule" -> _build_rule(a1, a2, a3, a4)
      [] f = "_parse_rule_line" -> _parse_rule_line(a1)
      [] f = "_load_rewrite_rules_from_dir" -> _load_rewrite_rules_from_dir(a1)
      [] f = "build" -> build(a1)
      [] f = "_sympy_to_content_mathml_basic" -> _sympy_to_content_mathml_basic(a1)
      [] f = "pres_basic_inner" -> pres_basic_inner(a1)
      [] f = "pres_basic" -> pres_basic(a1)
      [] f = "_sympy_to_mathml_strings" -> _sympy_to_mathml_strings(a1)
      [] f = "_rule_allowed" -> _rule_allowed(a1, a2, a3)
      [] f = "_apply_mapping" -> _apply_mapping(a1, a2, a3)
      [] f = "Evaluated" -> Evaluated(a1)
      [] f = "sp_simplify" -> sp_simplify(a1)
      [] f = "forward_options" -> forward_options(a1, a2, a3)
      [] f = "reverse_options" -> reverse_options(a1, a2, a3)
      [] f = "_generate_options_from_loaded_rules" -> _generate_options_from_loaded_rules(a1, a2, a3)
      [] f = "IsPolynomial" -> IsPolynomial(a1, a2)
      [] f = "Coefficients" -> Coefficients(a1, a2)
      [] f = "complete_square_options" -> complete_square_options(a1)
      [] f = "conjugate_options" -> conjugate_options(a1)
      [] f = "diff" -> diff(a1, a2)
      [] f = "doit" -> doit(a1)
      [] f = "sp_expand_trig" -> sp_expand_trig(a1)
      [] f = "derivative_options" -> derivative_options(a1)
      [] f = "dedup" -> dedup(a1, a2)
      [] f = "_generate_rewrite_options" -> _generate_rewrite_options(a1, a2, a3)
      [] f = "rewrite_options" -> rewrite_options(a1, a2)
      [] f = "located_target" -> located_target(a1, a2)
      [] f = "options_before_dedup" -> options_before_dedup(a1, a2, a3)
      [] f = "free_symbols" -> free_symbols(a1)
      [] f = "sp_div" -> sp_div(a1, a2)
      [] f = "sp_sub" -> sp_sub(a1, a2)
      [] f = "sp_neg" -> sp_neg(a1)
      [] f = "Targets" -> Targets
      [] f = "Fn" -> Fn
      [] f = "Canon" -> Canon
      [] f = "Xml" -> Xml
      [] f = "Nm" -> Nm
      [] f = "RuleText" -> RuleText
      [] f = "Tag" -> Tag
      [] f = "RuleNm" -> RuleNm
      [] f = "Cls" -> Cls
      [] f = "Repr" -> Repr
      [] f = "Msg" -> Msg
      [] f = "Label" -> Label
      [] f = "RuleFile" -> RuleFile
      [] f = "_canonical" -> _canonical(a1)
      [] f = "_with_ids" -> _with_ids(a1)
      [] f = "_find_node_by_id" -> _find_node_by_id(a1, a2)
      [] f = "_parse_content_mathml_to_ast" -> _parse_content_mathml_to_ast(a1)
      [] f = "_djb2_hex" -> _djb2_hex(a1)
      [] f = "OccursAt" -> OccursAt(a1, a2, a3)
      [] f = "Contains" -> Contains(a1, a2)
      [] f = "FindFirst" -> FindFirst(a1, a2)
      [] f = "SplitOnce" -> SplitOnce(a1, a2)
      [] f = "Split" -> Split(a1, a2)
      [] f = "Distinct" -> Distinct(a1)
      [] f = "Num" -> Num(a1, a2)
      [] f = "NonNumbers" -> NonNumbers(a1)
      [] f = "Numbers" -> Numbers(a1)
      [] f = "CoeffsOf" -> CoeffsOf(a1, a2)
      [] f = "ExpsOf" -> ExpsOf(a1, a2)
      [] f = "EndsWith" -> EndsWith(a1, a2)
      [] f = "Strip" -> Strip(a1)
      [] f = "Join" -> Join(a1, a2)
      [] f = "NumSum" -> NumSum(a1)
      [] f = "NumProd" -> NumProd(a1)
      [] f = "RestOf" -> RestOf(a1)

Init ==
    /\ hashseed \in 0..MaxSeed
    /\ rules_dir \in {RulesDirectory, SplitDirectory, SquareDirectory, NoDirectory}
    /\ LOADED_RULES = _load_rewrite_rules_from_dir_(rules_dir)
    /\ request = None
    /\ response = None
    /\ gen_in = None
    /\ gen_out = None
    /\ tree = None
    /\ ncalls = 0
    /\ canon = None
    /\ idtree = None
    /\ probe = None
    /\ found = None
    /\ seen = {}
    /\ handlers = NoHandlers

\* The process runs, no request is being served and no call is under way
Idle == LOADED_RULES # NotLoaded /\ request = None /\ gen_in = None

\* POST /rewriteOptions with one body, served to the end
PostRewriteOptions ==
    /\ Idle
    /\ \E doc \in Docs, assumptions \in BodyAssumptions :
        \E node_id \in BodyIds(doc) :
            LET plain == [contentMathML |-> doc, selectedNodeId |-> node_id]
                body == IF assumptions = None
                            THEN plain
                            ELSE [ contentMathML |-> doc, selectedNodeId |-> node_id,
                                   assumptions |-> assumptions ]
            IN  \E served \in {rewrite_options_(LOADED_RULES, RewriteOptionsRequest(body))} :
                    /\ request' = body
                    /\ response' = served.response
                    /\ gen_in' = served.gen_in
                    /\ gen_out' = served.gen_out
    /\ UNCHANGED <<LOADED_RULES, rules_dir, addrVars, concVars>>

\* A call that takes the first rule off the catalog it has read
CallGenerateRewriteOptions_consuming ==
    /\ Idle
    /\ \E expr \in Targets_, assumptions \in Assumptions :
        /\ gen_in' = [expr |-> expr, assumptions |-> assumptions]
        /\ gen_out' = _generate_rewrite_options_(LOADED_RULES, expr, assumptions)
    /\ LOADED_RULES' = IF LOADED_RULES = <<>> THEN <<>> ELSE Tail(LOADED_RULES)
    /\ UNCHANGED <<request, response, rules_dir, addrVars, concVars>>

\* _generate_rewrite_options called on its own
CallGenerateRewriteOptions ==
    /\ Idle
    /\ \E expr \in Targets_, assumptions \in Assumptions :
        /\ gen_in' = [expr |-> expr, assumptions |-> assumptions]
        /\ gen_out' = _generate_rewrite_options_(LOADED_RULES, expr, assumptions)
    /\ UNCHANGED <<request, response, LOADED_RULES, rules_dir, addrVars, concVars>>

\* The response is sent, or the call returns: nothing of it stays behind
Return ==
    /\ request # None \/ gen_in # None
    /\ request' = None
    /\ response' = None
    /\ gen_in' = None
    /\ gen_out' = None
    /\ UNCHANGED <<LOADED_RULES, rules_dir, addrVars, concVars>>

\* The process ends: its memory is gone; the next one has a hash seed of its own
StopProcess ==
    /\ LOADED_RULES # NotLoaded
    /\ hashseed' \in 0..MaxSeed
    /\ LOADED_RULES' = NotLoaded
    /\ request' = None
    /\ response' = None
    /\ gen_in' = None
    /\ gen_out' = None
    /\ handlers' = NoHandlers
    /\ UNCHANGED <<rules_dir, tree, ncalls, canon, idtree, probe, found, seen>>

\* A process starts: the catalog is loaded, once, before any request is served
StartProcess ==
    /\ LOADED_RULES = NotLoaded
    /\ LOADED_RULES' = _load_rewrite_rules_from_dir_(rules_dir)
    /\ UNCHANGED <<request, response, gen_in, gen_out, rules_dir, addrVars, concVars>>

Next ==
    \/ PostRewriteOptions
    \/ CallGenerateRewriteOptions
    \/ Return
    \/ StopProcess
    \/ StartProcess

Spec == Init /\ [][Next]_vars

-----------------------------------------------------------------------------
(* SpecLoad: the catalog alone.  A process starts in any of the rules      *)
(* directories, ends, and another starts in the same directory.            *)

InitLoad ==
    /\ hashseed \in 0..MaxSeed
    /\ rules_dir \in Directories
    /\ LOADED_RULES = _load_rewrite_rules_from_dir_(rules_dir)
    /\ request = None
    /\ response = None
    /\ gen_in = None
    /\ gen_out = None
    /\ tree = None
    /\ ncalls = 0
    /\ canon = None
    /\ idtree = None
    /\ probe = None
    /\ found = None
    /\ seen = {}
    /\ handlers = NoHandlers

NextLoad ==
    \/ StopProcess
    \/ StartProcess

SpecLoad == InitLoad /\ [][NextLoad]_vars

-----------------------------------------------------------------------------
(* SpecConc: requests to /rewriteOptions served at the same time by one     *)
(* process.  Each call of the handler has a frame of its own for its       *)
(* locals and goes through its statements in order; the statements of      *)
(* different calls interleave in any way.                                  *)

\* The bodies sent: sin(2x) with the id of no node, 2 sin(x) cos(x) and its
\* root, conjugate(exp(I theta)) with theta declared real, and no markup
ConcBodies ==
    { [ contentMathML |-> Doc(<<Math(SinOf(Times(<<Cn(Nm.n2), Ci(Nm.x)>>)))>>),
        selectedNodeId |-> Nm.missing ],
      [ contentMathML |-> Doc(<<Math(Times(<<Cn(Nm.n2), SinOf(Ci(Nm.x)),
                                             Apply(Op(Tag.cos), <<Ci(Nm.x)>>)>>))>>),
        selectedNodeId |-> Nm.root ],
      [ contentMathML |-> Doc(<<Math(ConjExp(Nm.I, Ci(Nm.theta)))>>),
        selectedNodeId |-> Nm.root, assumptions |-> ThetaReal ],
      [ contentMathML |-> Malformed, selectedNodeId |-> Nm.root ] }

InitConc ==
    /\ hashseed = 0
    /\ rules_dir = SplitDirectory
    /\ LOADED_RULES = _load_rewrite_rules_from_dir_(rules_dir)
    /\ request = None
    /\ response = None
    /\ gen_in = None
    /\ gen_out = None
    /\ tree = None
    /\ ncalls = 0
    /\ canon = None
    /\ idtree = None
    /\ probe = None
    /\ found = None
    /\ seen = {}
    /\ handlers = NoHandlers

\* One dedup table that the calls in flight have in common
table_of_first(i) == 1

\* The frame that holds the dict `chosen` which handler i works on: its own
table_of(i) == i

\* A request arrives and a call of the handler begins with its validated body
Receive(i) ==
    /\ handlers[i].pc = "idle"
    /\ \E body \in ConcBodies :
           handlers' = [handlers EXCEPT ![i] = [IdleHandler EXCEPT !.pc = "received", !.body = body]]
    /\ UNCHANGED <<addrVars, srvVars>>

\* ast = _parse_content_mathml_to_ast(request.contentMathML), or the 400
Parse(i) ==
    /\ handlers[i].pc = "received"
    /\ \E ast \in {_parse_content_mathml_to_ast_(RewriteOptionsRequest(handlers[i].body).contentMathML)} :
           handlers' =
               [handlers EXCEPT ![i] =
                   IF ast.ok
                       THEN [@ EXCEPT !.pc = "parsed", !.ast = ast.val]
                       ELSE [IdleHandler EXCEPT !.pc = "done", !.body = handlers[i].body,
                                                !.response = rejected(ast.err).response]]
    /\ UNCHANGED <<addrVars, srvVars>>

\* The ids, the target, its conversion, and the assumptions read off the request
Locate(i) ==
    /\ handlers[i].pc = "parsed"
    /\ handlers' =
           [handlers EXCEPT ![i] =
               [@ EXCEPT !.pc = "located",
                         !.expr = located_target_(handlers[i].ast,
                                                  RewriteOptionsRequest(handlers[i].body).selectedNodeId),
                         !.assumptions = getattr_assumptions(RewriteOptionsRequest(handlers[i].body))]]
    /\ UNCHANGED <<addrVars, srvVars>>

\* _generate_rewrite_options up to the loop over its candidates: the list
\* `options` is filled from the catalog as it stands and `chosen` is made empty
Generate(i) ==
    /\ handlers[i].pc = "located"
    /\ LOADED_RULES # NotLoaded
    /\ \E options \in {options_before_dedup_(LOADED_RULES, handlers[i].expr, handlers[i].assumptions)} :
           handlers' =
               [[handlers EXCEPT ![i] = [@ EXCEPT !.pc = "generated", !.options = options]]
                   EXCEPT ![table_of(i)].chosen = <<>>]
    /\ UNCHANGED <<addrVars, srvVars>>

\* One pass of the loop: the next candidate goes into `chosen`, or is dropped
Dedup(i) ==
    /\ handlers[i].pc = "generated"
    /\ handlers[i].options # <<>>
    /\ \E chosen \in {dedup_(<<Head(handlers[i].options)>>, handlers[table_of(i)].chosen)} :
           handlers' =
               [[handlers EXCEPT ![i].options = Tail(@)] EXCEPT ![table_of(i)].chosen = chosen]
    /\ UNCHANGED <<addrVars, srvVars>>

\* The loop is over: list(chosen.values()) is returned and sent, the frame is gone
Respond(i) ==
    /\ handlers[i].pc = "generated"
    /\ handlers[i].options = <<>>
    /\ handlers' =
           [handlers EXCEPT ![i] =
               [IdleHandler EXCEPT !.pc = "done", !.body = handlers[i].body,
                                   !.response = RewriteOptionsResponse(handlers[table_of(i)].chosen)]]
    /\ UNCHANGED <<addrVars, srvVars>>

\* The client has its response
Finish(i) ==
    /\ handlers[i].pc = "done"
    /\ handlers' = [handlers EXCEPT ![i] = IdleHandler]
    /\ UNCHANGED <<addrVars, srvVars>>

NextConc ==
    \E i \in 1..MaxRequests :
        \/ Receive(i)
        \/ Parse(i)
        \/ Locate(i)
        \/ Generate(i)
        \/ Dedup(i)
        \/ Respond(i)
        \/ Finish(i)

SpecConc == InitConc /\ [][NextConc]_vars

-----------------------------------------------------------------------------
(* Reference notions the properties are stated with *)

\* (h * 33 + c) mod 2^32, on limbs
RefStep(h, c) ==
    LET low == h[2] * 33 + c
    IN  <<(h[1] * 33 + (low \div Limb)) % Limb, low % Limb>>

\* The values reached from h over the elements of cs, one after the other
RECURSIVE RefValues(_, _)
RefValues(h, cs) ==
    IF cs = <<>> THEN <<h>> ELSE <<h>> \o RefValues(RefStep(h, Head(cs)), Tail(cs))

\* The value reached from 5381 over the sequence cs
RefHash(cs) == LET v == RefValues(<<0, 5381>>, cs) IN v[Len(v)]

\* The UTF-8 bytes of one code point, and of a string
Utf8Char(c) ==
    IF c < 128 THEN <<c>>
    ELSE IF c < 2048 THEN <<192 + (c \div 64), 128 + (c % 64)>>
    ELSE IF c < 65536 THEN <<224 + (c \div 4096), 128 + ((c \div 64) % 64), 128 + (c % 64)>>
    ELSE <<240 + (c \div 262144), 128 + ((c \div 4096) % 64),
           128 + ((c \div 64) % 64), 128 + (c % 64)>>

RECURSIVE Utf8(_)
Utf8(s) == IF s = <<>> THEN <<>> ELSE Utf8Char(Head(s)) \o Utf8(Tail(s))

IsLowerHexChar(c) == c \in 48..57 \/ c \in 97..102

HexCharValue(c) == IF c \in 48..57 THEN c - 48 ELSE c - 87

\* The value a string of at most eight hexadecimal digits denotes, on limbs
RECURSIVE ParseHexFrom(_, _)
ParseHexFrom(h, ds) ==
    IF ds = <<>> THEN h
    ELSE LET low == h[2] * 16 + HexCharValue(Head(ds))
         IN  ParseHexFrom(<<h[1] * 16 + (low \div Limb), low % Limb>>, Tail(ds))

ParseHex(ds) == ParseHexFrom(<<0, 0>>, ds)

\* A lowercase hexadecimal numeral of a 32-bit value, without leading zeros
IsLowerHex32(id) ==
    /\ Len(id) \in 1..8
    /\ \A i \in DOMAIN id : IsLowerHexChar(id[i])
    /\ (Len(id) > 1 => id[1] # 48)

InRange32(h) == h[1] \in 0..(Limb - 1) /\ h[2] \in 0..(Limb - 1)

IdOver(n, cs) ==
    /\ "id" \in DOMAIN n
    /\ IsLowerHex32(n.id)
    /\ ParseHex(n.id) = RefHash(cs)
    /\ LET t == djb2_trace(<<0, DJB2_INIT>>, _canonical(n))
       IN  \A i \in DOMAIN t : InRange32(t[i])

NonAscii(s) == \E i \in DOMAIN s : s[i] > 127

\* The tree without its ids
RECURSIVE StripIds(_)
StripIds(t) ==
    IF t.kind = "ident" THEN [kind |-> "ident", name |-> t.name]
    ELSE IF t.kind = "number" THEN [kind |-> "number", value |-> t.value]
    ELSE IF t.kind = "power"
        THEN [kind |-> "power", base |-> StripIds(t.base), exponent |-> StripIds(t.exponent)]
    ELSE IF t.kind = "add"
        THEN [kind |-> "add", terms |-> [i \in DOMAIN t.terms |-> StripIds(t.terms[i])]]
    ELSE IF t.kind = "call"
        THEN [kind |-> "call", func |-> t.func, arg |-> StripIds(t.arg)]
    ELSE [kind |-> "diff", var |-> StripIds(t.var), arg |-> StripIds(t.arg)]

\* The children of a node, in the order the specification names: base before
\* exponent, terms left to right, variable before body
Children(t) ==
    IF t.kind = "power" THEN <<t.base, t.exponent>>
    ELSE IF t.kind = "add" THEN t.terms
    ELSE IF t.kind = "call" THEN <<t.arg>>
    ELSE IF t.kind = "diff" THEN <<t.var, t.arg>>
    ELSE <<>>

RECURSIVE PreOrder(_)
RECURSIVE PreOrderAll(_)
PreOrderAll(ts) == IF ts = <<>> THEN <<>> ELSE PreOrder(Head(ts)) \o PreOrderAll(Tail(ts))
PreOrder(t) == <<t>> \o PreOrderAll(Children(t))

HasId(n, id) == "id" \in DOMAIN n /\ n.id = id

FirstWithId(t, id) ==
    LET p == PreOrder(t)
    IN  IF \E i \in DOMAIN p : HasId(p[i], id)
            THEN p[CHOOSE i \in DOMAIN p : HasId(p[i], id) /\ \A j \in 1..(i - 1) : ~HasId(p[j], id)]
            ELSE None

\* One level of the canonical grammar, over the canonical strings of the
\* children
GrammarOf(n, kids) ==
    IF n.kind = "ident" THEN Canon.ident \o n.name
    ELSE IF n.kind = "number" THEN Canon.number \o n.value
    ELSE IF n.kind = "power" THEN Canon.power \o kids[1] \o Canon.comma \o kids[2] \o Canon.rpar
    ELSE IF n.kind = "add" THEN Canon.add \o Join(kids, Canon.comma) \o Canon.rpar
    ELSE IF n.kind = "call" THEN Canon.call \o n.func \o Canon.lpar \o kids[1] \o Canon.rpar
    ELSE Canon.diff \o kids[1] \o Canon.comma \o kids[2] \o Canon.rpar

FollowsGrammar(n) ==
    LET c == Children(n)
    IN  _canonical(n) = GrammarOf(n, [i \in DOMAIN c |-> _canonical(c[i])])

Permuted(n, p) == [kind |-> "add", terms |-> [i \in DOMAIN n.terms |-> n.terms[p[i]]]]

\* Every reordering of the sum's terms that changes their sequence changes
\* the canonical string
OrderSensitive(n) ==
    \A p \in Permutations(DOMAIN n.terms) :
        Permuted(n, p).terms # n.terms => _canonical(Permuted(n, p)) # _canonical(n)

HasDelimiter(s) == \E i \in DOMAIN s : s[i] \in {40, 41, 44}    \* ( ) ,

\* No name, literal or function name below n holds a delimiter of the grammar
DelimiterFree(n) ==
    \A m \in SubNodes(n) :
        /\ m.kind = "ident" => ~HasDelimiter(m.name)
        /\ m.kind = "number" => ~HasDelimiter(m.value)
        /\ m.kind = "call" => ~HasDelimiter(m.func)

Sums(t) == { n \in SubNodes(t) : n.kind = "add" }

-----------------------------------------------------------------------------
(* Properties C3 - C7, of SpecAddr *)

C4_IdIsDjb2OfCodePoints ==
    idtree # None => \A n \in SubNodes(idtree) : IdOver(n, _canonical(n))

\* An id assigned to a node whose canonical string holds a non-ASCII character
C4_Witness ==
    /\ idtree # None
    /\ \E n \in SubNodes(idtree) : NonAscii(_canonical(n)) /\ IdOver(n, _canonical(n))

\* C4, in the wording of the specification: the same, once per byte of the canonical string (UTF-8).
C4_IdIsDjb2OfBytes ==
    idtree # None => \A n \in SubNodes(idtree) : IdOver(n, Utf8(_canonical(n)))

\* C5: the canonical string of every node follows the grammar
\* over the canonical strings of its children, taken in their given order;
\* reordering the terms of a sum changes its canonical string whenever no
\* name, literal or function name in it holds '(', ')' or ','.
C5_GrammarInGivenOrder ==
    canon # None =>
        /\ canon.s = _canonical(tree)
        /\ \A n \in SubNodes(tree) : FollowsGrammar(n)
        /\ \A n \in Sums(tree) : DelimiterFree(n) => OrderSensitive(n)

\* A canonicalized sum whose terms can be reordered
C5_Witness ==
    /\ canon # None
    /\ \E n \in Sums(tree) :
        /\ DelimiterFree(n)
        /\ \E p \in Permutations(DOMAIN n.terms) : Permuted(n, p).terms # n.terms

\* C5, in the wording of the specification: ... so two sums with the same terms in a different order
\* have different canonical strings, for every sum.
C5_AnyReorderingDiffers ==
    canon # None =>
        /\ \A n \in SubNodes(tree) : FollowsGrammar(n)
        /\ \A n \in Sums(tree) : OrderSensitive(n)

\* C6: after _with_ids every node carries an id, the id is
\* _djb2_hex(_canonical(node)), and kinds, names, literals and child order
\* are those of the input tree.
C6_EveryNodeHasItsId ==
    idtree # None =>
        /\ \A n \in SubNodes(idtree) : "id" \in DOMAIN n /\ n.id = _djb2_hex(_canonical(n))
        /\ StripIds(idtree) = tree

\* Ids assigned in a tree with a root, an inner node and leaves
C6_Witness ==
    /\ idtree # None
    /\ \E n \in SubNodes(idtree) : n # idtree /\ n.kind \notin {"ident", "number"}
    /\ \E n \in SubNodes(idtree) : n.kind \in {"ident", "number"} /\ "id" \in DOMAIN n

\* C7: _find_node_by_id returns the first node in depth-first pre-order
\* whose id is the requested one, and None when no node has it.
C7_FirstInPreOrder ==
    probe # None => found = FirstWithId(idtree, probe.s)

\* A lookup whose id two different nodes of the tree carry
C7_Witness ==
    /\ probe # None
    /\ found # None
    /\ \E n1, n2 \in SubNodes(idtree) : n1 # n2 /\ HasId(n1, probe.s) /\ HasId(n2, probe.s)

\* The request being served reads as a tree
Parsed == _parse_content_mathml_to_ast(request.contentMathML)
Serving == request # None
Readable == Serving /\ Parsed.ok
NodeIds(t) == { n.id : n \in SubNodes(t) }
UnknownId == Readable /\ request.selectedNodeId \notin NodeIds(_with_ids(Parsed.val))
RootSelected == [request EXCEPT !.selectedNodeId = _with_ids(Parsed.val).id]

(* C1: a request whose selectedNodeId is the id of no node of the tree is  *)
(* answered without failure, with exactly the options the same markup      *)
(* gets when the id of the root node is selected.                          *)
C1_UnknownIdTargetsRoot ==
    UnknownId =>
        /\ response.status = 200
        /\ response = rewrite_options(LOADED_RULES, RewriteOptionsRequest(RootSelected)).response

\* An unknown id was sent for a document that has options, and a node below the root too
C1_Witness ==
    /\ UnknownId
    /\ response.status = 200
    /\ response.options # <<>>
    /\ NodeIds(_with_ids(Parsed.val)) # {_with_ids(Parsed.val).id}

(* C2: a request whose markup cannot be parsed is rejected with status 400 *)
(* and a detail that holds the parser's message; the response holds no     *)
(* option list and _generate_rewrite_options is not called.                *)
C2_UnreadableIsRejected ==
    (Serving /\ ~Parsed.ok) =>
        /\ response.status = 400
        /\ "options" \notin DOMAIN response
        /\ StartsWith(response.detail, Msg.invalid)
        /\ Len(response.detail) > Len(Msg.invalid)
        /\ response.detail = Msg.invalid \o Parsed.err
        /\ gen_in = None
        /\ gen_out = None

\* A request with an unsupported operator below the root of its markup was rejected
C2_Witness ==
    /\ Serving
    /\ ~Parsed.ok
    /\ StartsWith(Parsed.err, Msg.unsupported_operator)
    /\ response.status = 400

Called == gen_in # None
OptionsNamed(name) == { i \in DOMAIN gen_out : gen_out[i].ruleName = name }

(* C8: no option returned by _generate_rewrite_options has a replacement   *)
(* structurally identical to the target, except options of the rule        *)
(* combine_like_terms_add.                                                 *)
C8_NoReplacementIsTheTarget ==
    Called =>
        \A i \in DOMAIN gen_out :
            gen_out[i].ruleName # RuleNm.combine_like_terms_add
                => sp_srepr(gen_out[i].replacement) # sp_srepr(gen_in.expr)

\* The rule of the catalog with a name, and the pattern an option of it was matched with
RuleNamed(name) == { i \in DOMAIN LOADED_RULES : LOADED_RULES[i].name = name }
PatternOf(rule, opt) ==
    IF opt.id = rule.name \o RuleNm.fwd THEN rule.left_pattern ELSE rule.right_pattern

\* theta of the match is a plain variable that the assumptions call real or positive
ThetaDeclaredReal(m, assumptions) ==
    /\ m # None
    /\ assumptions # None
    /\ RuleNm.theta \in DOMAIN m.map
    /\ m.map[RuleNm.theta].h = "Symbol"
    /\ m.map[RuleNm.theta].name \in DOMAIN assumptions.map
    /\ Lower(assumptions.map[m.map[RuleNm.theta].name]) \in {Nm.real, Nm.positive}

(* C9: an option of the rule conjugate_exp_i_theta is returned only if the *)
(* rule's theta bound to a plain variable whose name the assumptions map   *)
(* to real or positive, in any letter case; with no assumptions, absent or *)
(* empty, no option of that rule is returned.                              *)
C9_GatedByAssumptions ==
    Called =>
        \A i \in OptionsNamed(RuleNm.conjugate_exp_i_theta) :
            /\ ~NoAssumptions(gen_in.assumptions)
            /\ \E k \in RuleNamed(RuleNm.conjugate_exp_i_theta) :
                   ThetaDeclaredReal(sp_match(gen_in.expr, PatternOf(LOADED_RULES[k], gen_out[i])),
                                     gen_in.assumptions)

\* The option was returned for assumptions that spell the word with a capital
C9_Witness ==
    /\ Called
    /\ OptionsNamed(RuleNm.conjugate_exp_i_theta) # {}
    /\ gen_in.assumptions = Assume(Nm.theta :> Nm.Real)

\* The markup of conjugate(exp(I*theta)), the whole of it being the target
ConjExpDoc == Doc(<<Math(ConjExp(Nm.I, Ci(Nm.theta)))>>)
WholeIsTarget ==
    \/ UnknownId
    \/ request.selectedNodeId = _with_ids(Parsed.val).id
RuleMatches(name, expr) ==
    \E k \in RuleNamed(name) : sp_match(expr, LOADED_RULES[k].left_pattern) # None

(* C10: a request for conjugate(exp(I*theta)) that supplies the            *)
(* assumptions {theta: real} has them reach the rule gate, and its         *)
(* response holds an option of the rule conjugate_exp_i_theta, the catalog *)
(* holding that rule and the rule matching.                                *)
C10_AssumptionsReachTheGate ==
    ( /\ Serving
      /\ request.contentMathML = ConjExpDoc
      /\ WholeIsTarget
      /\ "assumptions" \in DOMAIN request
      /\ request.assumptions = ThetaReal
      /\ RuleMatches(RuleNm.conjugate_exp_i_theta, gen_in.expr) )
    => /\ gen_in.assumptions = ThetaReal
       /\ \E i \in DOMAIN response.options :
              response.options[i].ruleName = RuleNm.conjugate_exp_i_theta

\* The candidates of the call under way, in the order they were generated
Candidates ==
    _generate_options_from_loaded_rules(LOADED_RULES, gen_in.expr, gen_in.assumptions)
        \o complete_square_options(gen_in.expr)
        \o conjugate_options(gen_in.expr)
        \o derivative_options(gen_in.expr)
ReplacementText(opt) == Strip(opt.replacementContentMathML)

(* C11: in the list _generate_rewrite_options returns, no two options have *)
(* the same structural replacement text, surrounding whitespace trimmed.   *)
C11_NoTwoSameReplacement ==
    Called =>
        \A i, j \in DOMAIN gen_out :
            i # j => ReplacementText(gen_out[i]) # ReplacementText(gen_out[j])

\* Candidates with one replacement text were generated, and other options were returned too
C11_Witness ==
    /\ Called
    /\ Len(gen_out) > 1
    /\ \E cands \in {Candidates} :
           \E i, j \in DOMAIN cands :
               i # j /\ ReplacementText(cands[i]) = ReplacementText(cands[j])

\* The fixed table of priorities
TablePriority(ruleName) ==
    IF ruleName \in {RuleNm.conjugate_linearity, RuleNm.conjugate_multiplicative,
                     RuleNm.modulus_square}
        THEN 3
    ELSE IF ruleName \in {RuleNm.trig_double_angle_sin, RuleNm.trig_identity_sin2,
                          RuleNm.complete_square}
        THEN 2
    ELSE 0

\* Of the candidates cands, those that share the replacement text of an
\* option, and the first of those of highest priority among them
Sharing(cands, opt) ==
    { k \in DOMAIN cands : ReplacementText(cands[k]) = ReplacementText(opt) }
Highest(cands, ks) ==
    { k \in ks : \A l \in ks : TablePriority(cands[k].ruleName)
                                   >= TablePriority(cands[l].ruleName) }
FirstOf(ks) == CHOOSE k \in ks : \A l \in ks : k <= l

(* C12: among the candidates that share one structural replacement text,   *)
(* the option kept has the highest priority of the fixed table, and among  *)
(* those of equal highest priority it is the one generated first.          *)
C12_KeptIsFirstOfHighest ==
    Called =>
        \A cands \in {Candidates} :
            /\ \A k \in DOMAIN cands :
                   \E i \in DOMAIN gen_out :
                       ReplacementText(gen_out[i]) = ReplacementText(cands[k])
            /\ \A i \in DOMAIN gen_out :
                   \A ks \in {Sharing(cands, gen_out[i])} :
                       gen_out[i] = cands[FirstOf(Highest(cands, ks))]

\* A candidate of priority 0 came before two of priority 2 with its replacement text
C12_Witness ==
    /\ Called
    /\ \E cands \in {Candidates} :
           \E i \in DOMAIN gen_out :
               \E ks \in {Sharing(cands, gen_out[i])} :
                   /\ FirstOf(ks) \notin Highest(cands, ks)
                   /\ Cardinality(Highest(cands, ks)) > 1

\* Where an option comes from: the place of its rule in the catalog, or, after
\* the catalog, the place of its generator
IsCatalogOption(opt) == \E k \in DOMAIN LOADED_RULES : LOADED_RULES[k].name = opt.ruleName
                            /\ opt.id \in {opt.ruleName \o RuleNm.fwd, opt.ruleName \o RuleNm.rev}
SourceRank(opt) ==
    IF IsCatalogOption(opt)
        THEN CHOOSE k \in DOMAIN LOADED_RULES : LOADED_RULES[k].name = opt.ruleName
    ELSE IF opt.id = RuleNm.complete_square_auto THEN Len(LOADED_RULES) + 1
    ELSE IF opt.id = RuleNm.differentiate_do_it THEN Len(LOADED_RULES) + 3
    ELSE Len(LOADED_RULES) + 2

(* C13: in the returned list every catalog option precedes every generator *)
(* option, catalog options are in rule-definition order and generator      *)
(* options in the order complete-the-square, conjugate distributivity,     *)
(* derivative evaluation, also when deduplication put a later duplicate of *)
(* higher priority in place of an earlier one.                             *)
C13_CatalogThenGeneratorsInOrder ==
    Called =>
        \A i, j \in DOMAIN gen_out :
            i < j => SourceRank(gen_out[i]) <= SourceRank(gen_out[j])

\* A pattern that no target matches, and the catalog with it in the place of
\* one pattern of the rule at k: that direction of the rule yields no candidate
Unmatchable == sp_Symbol(<<0>>)
WithoutForward(rules, k) == [rules EXCEPT ![k].left_pattern = Unmatchable]
WithoutReverse(rules, k) == [rules EXCEPT ![k].right_pattern = Unmatchable]
ForwardFailed(k) == ~forward_try(LOADED_RULES[k], gen_in.expr, gen_in.assumptions).ok
ReverseFailed(k) == ~reverse_try(LOADED_RULES[k], gen_in.expr, gen_in.assumptions).ok
\* sp.Poly raised in the complete-the-square generator
PolyFailed ==
    /\ free_symbols(gen_in.expr) # {}
    /\ ~sp_Poly(gen_in.expr, square_variable(gen_in.expr)).ok
WithoutSquareGenerator ==
    dedup(_generate_options_from_loaded_rules(LOADED_RULES, gen_in.expr, gen_in.assumptions)
              \o conjugate_options(gen_in.expr)
              \o derivative_options(gen_in.expr),
          <<>>)

(* C14: an exception while one rule direction or one generator is          *)
(* processed does not fail the call, and the options returned are those of *)
(* a run in which only the failing candidate is absent.                    *)
C14_FailureIsIsolated ==
    Called =>
        /\ DOMAIN gen_out = 1..Len(gen_out)
        /\ \A k \in DOMAIN LOADED_RULES :
               /\ ForwardFailed(k) =>
                      gen_out = _generate_rewrite_options(WithoutForward(LOADED_RULES, k),
                                                          gen_in.expr, gen_in.assumptions)
               /\ ReverseFailed(k) =>
                      gen_out = _generate_rewrite_options(WithoutReverse(LOADED_RULES, k),
                                                          gen_in.expr, gen_in.assumptions)
        /\ PolyFailed => gen_out = WithoutSquareGenerator

\* The forward direction of a rule raised; its reverse direction and another
\* rule gave the options returned
C14_Witness ==
    /\ Called
    /\ \E k \in DOMAIN LOADED_RULES :
           /\ ForwardFailed(k)
           /\ ~ReverseFailed(k)
           /\ \E i, j \in DOMAIN gen_out :
                  /\ gen_out[i].id = LOADED_RULES[k].name \o RuleNm.rev
                  /\ gen_out[j].ruleName # LOADED_RULES[k].name

\* The lines of the readable files of a directory, file after file
RECURSIVE LinesOf(_)
LinesOf(files) ==
    IF files = <<>> THEN <<>>
    ELSE (IF Head(files).readable THEN Head(files).lines ELSE <<>>) \o LinesOf(Tail(files))

\* The part of a line before any "#", the places of the keyword in that
\* part, and the two sides around the keyword at i
CoreOf(line) == IF Contains(line, RuleText.hash)
                    THEN SubSeq(line, 1, FindFirst(line, RuleText.hash) - 1)
                    ELSE line
KeywordAt(core) == { i \in 1..Len(core) : OccursAt(core, RuleText.keyword, i) }
LeftSide(core, i) == Strip(SubSeq(core, 1, i - 1))
RightSide(core, i) == Strip(SubSeq(core, i + Len(RuleText.keyword), Len(core)))
Sides(line) ==
    LET parts == { <<LeftSide(core, i), RightSide(core, i)>> : core \in {CoreOf(line)},
                                                               i \in KeywordAt(CoreOf(line)) }
    IN  CHOOSE part \in parts : TRUE

\* A line that is skipped: blank, comment only, without the keyword before
\* any "#", with the keyword more than once, or with a side that does not parse
Blank(line) == Strip(line) = <<>>
CommentOnly(line) == StartsWith(Strip(line), RuleText.hash)
KeywordCount(line) == Cardinality(KeywordAt(CoreOf(line)))
BadSide(line) ==
    /\ KeywordCount(line) = 1
    /\ \E sides \in {Sides(line)} :
           ~_sympify_rule_side(sides[1]).ok \/ ~_sympify_rule_side(sides[2]).ok
SkippedLine(line) ==
    Blank(line) \/ CommentOnly(line) \/ KeywordCount(line) # 1 \/ BadSide(line)

\* The places of the lines that are not skipped, and the lines at the places
\* keep, in their order
NotSkipped(lines) == { i \in DOMAIN lines : ~SkippedLine(lines[i]) }
LinesAt(lines, keep) ==
    [n \in 1..Cardinality(keep) |->
        lines[CHOOSE i \in keep : Cardinality({ j \in keep : j < i }) = n - 1]]

Loaded == LOADED_RULES # NotLoaded

(* C15: while a rule file is loaded, a line that is blank, comment only,   *)
(* without the rewrite keyword before any "#", with the keyword more than  *)
(* once or with a side that fails to parse is skipped on its own: every    *)
(* other line of the file, before and after it, is loaded, in file order.  *)
C15_BadLinesSkippedAlone ==
    Loaded =>
        \A lines \in {LinesOf(rules_dir.files)} :
            \A keep \in {NotSkipped(lines)} :
                /\ Len(LOADED_RULES) = Cardinality(keep)
                /\ \A i \in 1..Cardinality(keep) :
                       \E sides \in {Sides(LinesAt(lines, keep)[i])} :
                           /\ LOADED_RULES[i].left_template = _sympify_rule_side(sides[1]).val
                           /\ LOADED_RULES[i].right_template = _sympify_rule_side(sides[2]).val

\* A file was loaded that has a line with the keyword twice between two lines
\* that gave rules, and another that has a line with a side that does not parse
C15_Witness ==
    /\ Loaded
    /\ \A bad \in {1, 2} :
           \E f \in DOMAIN rules_dir.files :
               \A lines \in {rules_dir.files[f].lines} :
                   \E i, j, k \in DOMAIN lines :
                       /\ i < j /\ j < k
                       /\ ~SkippedLine(lines[i])
                       /\ IF bad = 1 THEN KeywordCount(lines[j]) = 2 ELSE BadSide(lines[j])
                       /\ ~SkippedLine(lines[k])
                       /\ \E m, n \in DOMAIN LOADED_RULES :
                              /\ m < n
                              /\ LOADED_RULES[m].left_template
                                     = _sympify_rule_side(Sides(lines[i])[1]).val
                              /\ LOADED_RULES[n].left_template
                                     = _sympify_rule_side(Sides(lines[k])[1]).val

\* The rules of each readable file loaded on its own, file after file
RECURSIVE FileByFile(_)
FileByFile(files) ==
    IF files = <<>> THEN <<>>
    ELSE (IF Head(files).readable
              THEN _load_rewrite_rules_from_dir(Directory(<<Head(files)>>))
              ELSE <<>>)
         \o FileByFile(Tail(files))

(* C16: loading the catalog never fails the start of the process: the     *)
(* process that started has a list as its catalog; with no rules directory *)
(* the list is empty, and a file that cannot be read contributes no rule   *)
(* while the rules of every readable file are loaded.                      *)
C16_LoadingDegrades ==
    Loaded =>
        /\ DOMAIN LOADED_RULES = 1..Len(LOADED_RULES)
        /\ ~rules_dir.exists => LOADED_RULES = <<>>
        /\ rules_dir.exists => LOADED_RULES = FileByFile(rules_dir.files)

\* The process runs with the rules of a file that glob yielded after a file
\* that cannot be read
C16_Witness ==
    /\ Loaded
    /\ rules_dir.exists
    /\ \E i, j \in DOMAIN rules_dir.files :
           /\ i < j
           /\ ~rules_dir.files[i].readable
           /\ rules_dir.files[j].readable
           /\ _load_rewrite_rules_from_dir(Directory(<<rules_dir.files[j]>>)) # <<>>
           /\ LOADED_RULES = _load_rewrite_rules_from_dir(Directory(<<rules_dir.files[j]>>))

\* A parsed side with every variable replaced by the wildcard of its name,
\* and nothing else changed
RECURSIVE AsWritten(_)
AsWritten(e) ==
    IF e.h = "Symbol" THEN sp_Wild(e.name)
    ELSE IF IsAtom(e) THEN e
    ELSE [e EXCEPT !.args = [i \in DOMAIN e.args |-> AsWritten(e.args[i])]]

VariableNames(e) == { v.name : v \in free_symbols(e) }

(* C17: of every rule built, the wildcards are those of the names of the   *)
(* variables of the two parsed sides; left_pattern and right_pattern are   *)
(* the parsed sides with every variable replaced by the wildcard of its    *)
(* name, no plain variable left; left_template and right_template are the  *)
(* parsed sides, unmodified.                                               *)
C17_PatternsAreSidesWithWildcards ==
    Loaded =>
        \A lines \in {LinesOf(rules_dir.files)} :
            \A keep \in {NotSkipped(lines)} :
                \A i \in DOMAIN LOADED_RULES :
                    \A r \in {LOADED_RULES[i]}, sides \in {Sides(LinesAt(lines, keep)[i])} :
                        /\ r.left_template = _sympify_rule_side(sides[1]).val
                        /\ r.right_template = _sympify_rule_side(sides[2]).val
                        /\ DOMAIN r.wilds = VariableNames(r.left_template)
                                                \cup VariableNames(r.right_template)
                        /\ \A n \in DOMAIN r.wilds : r.wilds[n] = sp_Wild(n)
                        /\ free_symbols(r.left_pattern) = {}
                        /\ free_symbols(r.right_pattern) = {}
                        /\ r.left_pattern = AsWritten(r.left_template)
                        /\ r.right_pattern = AsWritten(r.right_template)

(* C18: the catalog is built once, before any request is handled, and no   *)
(* request changes it: a request or a call is under way only in a process  *)
(* that has loaded its catalog, and from the load to the end of the        *)
(* process LOADED_RULES, with every field of every rule, stays as loaded.  *)
C18_CatalogNeverChanges ==
    [][ /\ (Loaded /\ LOADED_RULES' # NotLoaded) => LOADED_RULES' = LOADED_RULES
        /\ (request' # None \/ gen_in' # None) => LOADED_RULES' # NotLoaded ]_vars

\* A request has been answered with options from the catalog
C18_Witness ==
    /\ Loaded
    /\ Serving
    /\ response.status = 200
    /\ \E i \in DOMAIN response.options : IsCatalogOption(response.options[i])

\* A template with the variables that a match bound replaced by what they matched
Instantiated(template, m) ==
    sp_xreplace(template,
                [v \in { v \in free_symbols(template) : v.name \in DOMAIN m.map } |-> m.map[v.name]])

\* The candidates one rule gives for the target of the call under way, and
\* those among them of one direction
OfRule(r) == _generate_options_from_loaded_rules(<<r>>, gen_in.expr, gen_in.assumptions)
Forward(r, cands) == { i \in DOMAIN cands : cands[i].id = r.name \o RuleNm.fwd }
Reverse(r, cands) == { i \in DOMAIN cands : cands[i].id = r.name \o RuleNm.rev }

Alone(body) == rewrite_options(LOADED_RULES, RewriteOptionsRequest(body))

(* C19: under any interleaving of rewrite_options requests handled at the  *)
(* same time, the tree, the target, the candidate list and the dedup table *)
(* of each request are its own: a step of one request changes the frame of *)
(* no other request and leaves the catalog as it is; and the options each  *)
(* request is answered are those it is answered when it is served alone    *)
(* with the same markup, selected id and assumptions.                      *)
C19_RequestsArePrivate ==
    /\ [][ /\ LOADED_RULES' = LOADED_RULES
           /\ \E i \in 1..MaxRequests :
                  \A j \in 1..MaxRequests \ {i} : handlers'[j] = handlers[j] ]_vars
    /\ [](\A i \in 1..MaxRequests :
              handlers[i].pc = "done" => handlers[i].response = Alone(handlers[i].body).response)

\* Two requests with different bodies are both in the loop over their
\* candidates, each with options in its table and candidates to go
C19_Witness ==
    \E i, j \in 1..MaxRequests :
        /\ handlers[i].pc = "generated" /\ handlers[j].pc = "generated"
        /\ handlers[i].body # handlers[j].body
        /\ handlers[i].chosen # <<>> /\ handlers[j].chosen # <<>>
        /\ handlers[i].options # <<>> /\ handlers[j].options # <<>>
        /\ Len(Alone(handlers[i].body).gen_out) < Len(handlers[i].chosen) + Len(handlers[i].options)

\* The elements of a document: its top-level elements and all below them
RECURSIVE Elements(_)
Elements(el) == {el} \cup UNION { Elements(el.kids[i]) : i \in DOMAIN el.kids }
ElementsOf(content) == UNION { Elements(content.roots[i]) : i \in DOMAIN content.roots }

\* The supported vocabulary of <apply>: the operator element and the number
\* of operands that go with it
UnaryTags == {Tag.sin, Tag.cos, Tag.tan, Tag.sec, Tag.csc, Tag.cot, Tag.ln}
SupportedApply(el) ==
    /\ el.kids # <<>>
    /\ \/ el.kids[1].tag = Tag.power /\ Len(el.kids) = 3
       \/ el.kids[1].tag \in {Tag.plus, Tag.times}
       \/ el.kids[1].tag \in UnaryTags /\ Len(el.kids) = 2
       \/ el.kids[1].tag = Tag.diff /\ Len(el.kids) = 3
       \/ el.kids[1].tag = Tag.ci /\ Len(el.kids) = 2

Served == request # None

(* C21: _parse_content_mathml_to_ast fails with a parse error for every    *)
(* apply whose operator element or number of operands is outside the       *)
(* supported vocabulary: markup that holds such an apply is answered 400,  *)
(* never parsed as another operator or with operands dropped.              *)
C21_UnsupportedApplyFails ==
    Served =>
        \A el \in ElementsOf(request.contentMathML) :
            (el.tag = Tag.apply /\ ~SupportedApply(el)) =>
                /\ ~_parse_content_mathml_to_ast(request.contentMathML).ok
                /\ response.status = 400

\* An element that to_ast knows neither as an identifier, a number nor an apply
UnknownTag(el) ==
    ~EndsWith(el.tag, Tag.ci) /\ ~EndsWith(el.tag, Tag.cn) /\ ~EndsWith(el.tag, Tag.apply)

\* The element to_ast is first called on
RootOf(content) == root_node(parse_xml(content).val)

(* C22: in _parse_content_mathml_to_ast an element with an unknown tag and *)
(* exactly one child parses to exactly the tree of that child, and an      *)
(* element with an unknown tag and no child or more than one fails with an *)
(* error whose message names the tag; at the root of a request the one is  *)
(* answered as the child alone is and the other is answered 400 with the   *)
(* tag in the detail.                                                      *)
C22_UnknownTagUnwrapsOneChild ==
    (Served /\ request.contentMathML.wf) =>
        /\ \A el \in ElementsOf(request.contentMathML) \cup {RootOf(request.contentMathML)} :
               UnknownTag(el) =>
                   IF Len(el.kids) = 1
                       THEN to_ast(el) = to_ast(el.kids[1])
                       ELSE ~to_ast(el).ok /\ Contains(to_ast(el).err, el.tag)
        /\ \A root \in {RootOf(request.contentMathML)} :
               UnknownTag(root) =>
                   IF Len(root.kids) = 1
                       THEN _parse_content_mathml_to_ast(request.contentMathML) = to_ast(root.kids[1])
                       ELSE /\ response.status = 400
                            /\ Contains(response.detail, root.tag)

\* A request whose markup is one child inside an element of unknown tag was
\* answered from the child
C22_Witness ==
    /\ Served
    /\ request.contentMathML.wf
    /\ \A root \in {RootOf(request.contentMathML)} :
           /\ UnknownTag(root)
           /\ Len(root.kids) = 1
           /\ response.status = 200
           /\ gen_in.expr = _ast_to_sympy(to_ast(root.kids[1]).val)

\* The derivative applies of a document, and an apply with its two operands exchanged
IsDiffApply(el) == el.tag = Tag.apply /\ el.kids # <<>> /\ el.kids[1].tag = Tag.diff
Exchanged(el) == Apply(el.kids[1], <<el.kids[3], el.kids[2]>>)
IsIdentifier(el) == to_ast(el).ok /\ to_ast(el).val.kind = "ident"
DiffNode(var, body) == Ok([kind |-> "diff", var |-> to_ast(var).val, arg |-> to_ast(body).val])
OperandsParse(el) == \A i \in 2..Len(el.kids) : to_ast(el.kids[i]).ok
DiffApplies(content) ==
    { el \in ElementsOf(content) : IsDiffApply(el) /\ OperandsParse(el) }

\* A derivative apply with operands taken away or added
OtherCounts(el) ==
    { Apply(el.kids[1], ops) :
        ops \in {<<>>, <<el.kids[2]>>, <<el.kids[2], el.kids[3], el.kids[2]>>} }

(* C23 as stated: a derivative of two operands parses to the same node for *)
(* either operand order, the operand that is an identifier being the       *)
(* variable and the other the body; with no identifier among the operands, *)
(* or another number of operands, parsing fails.                           *)
C23_EitherOrderSameNode ==
    Served =>
        \A el \in DiffApplies(request.contentMathML) :
            /\ Len(el.kids) = 3
            /\ IF IsIdentifier(el.kids[2]) \/ IsIdentifier(el.kids[3])
                   THEN /\ to_ast(el).ok
                        /\ to_ast(el) = to_ast(Exchanged(el))
                   ELSE ~to_ast(el).ok /\ ~to_ast(Exchanged(el)).ok
            /\ \A other \in OtherCounts(el) : ~to_ast(other).ok

(* C23 amended: when exactly one of the two operands is an identifier, the *)
(* derivative parses for either operand order to the node whose variable   *)
(* is that identifier and whose body is the other operand; when both are   *)
(* identifiers the first operand is the variable and the second the body,  *)
(* so that the two orders give different nodes; with no identifier among   *)
(* the operands, or another number of operands, parsing fails.             *)
C23_OneIdentifierEitherOrder ==
    Served =>
        \A el \in DiffApplies(request.contentMathML) :
            /\ Len(el.kids) = 3
            /\ (IsIdentifier(el.kids[2]) /\ ~IsIdentifier(el.kids[3])) =>
                   /\ to_ast(el) = DiffNode(el.kids[2], el.kids[3])
                   /\ to_ast(Exchanged(el)) = to_ast(el)
            /\ (~IsIdentifier(el.kids[2]) /\ IsIdentifier(el.kids[3])) =>
                   /\ to_ast(el) = DiffNode(el.kids[3], el.kids[2])
                   /\ to_ast(Exchanged(el)) = to_ast(el)
            /\ (IsIdentifier(el.kids[2]) /\ IsIdentifier(el.kids[3])) =>
                   /\ to_ast(el) = DiffNode(el.kids[2], el.kids[3])
                   /\ to_ast(Exchanged(el)) = DiffNode(el.kids[3], el.kids[2])
            /\ (~IsIdentifier(el.kids[2]) /\ ~IsIdentifier(el.kids[3])) =>
                   ~to_ast(el).ok /\ ~to_ast(Exchanged(el)).ok
            /\ \A other \in OtherCounts(el) : ~to_ast(other).ok

\* The derivative of sin(x) written body first was requested and answered
\* for Derivative(sin(x), x)
C23_Witness ==
    /\ Served
    /\ response.status = 200
    /\ \A root \in {RootOf(request.contentMathML)} :
           /\ IsDiffApply(root)
           /\ Len(root.kids) = 3
           /\ ~IsIdentifier(root.kids[2])
           /\ IsIdentifier(root.kids[3])
           /\ gen_in.expr = sp_Derivative(_ast_to_sympy(to_ast(root.kids[2]).val),
                                          _ast_to_sympy(to_ast(root.kids[3]).val))

\* x^2 + 6x + 5, and a request for it selected at the root
QuadraticDoc == Doc(<<Math(Plus(<<X2, Times(<<Cn(Nm.n6), Ci(Nm.x)>>), Cn(Nm.n5)>>))>>)
QuadraticAtRoot ==
    /\ Served
    /\ request.contentMathML = QuadraticDoc
    /\ request.selectedNodeId = Nm.root

NamedCompleteSquare(options) ==
    { i \in DOMAIN options : options[i].ruleName = RuleNm.complete_square }

(* C24: for the target x^2 + 6x + 5 selected at the root, the response     *)
(* holds exactly one option with rule name complete_square: the option of  *)
(* the catalog rule complete_square and the option of the algorithmic      *)
(* complete-the-square generator are never both in the returned list.      *)
C24_OneCompleteSquareOption ==
    QuadraticAtRoot =>
        /\ response.status = 200
        /\ Cardinality(NamedCompleteSquare(response.options)) = 1
        /\ ~ \E i, j \in DOMAIN response.options :
                 /\ response.options[i].id = RuleNm.complete_square_auto
                 /\ response.options[j].id \in { RuleNm.complete_square \o RuleNm.fwd,
                                                 RuleNm.complete_square \o RuleNm.rev }

\* The catalog rule complete_square and the generator both gave a candidate
\* for x^2 + 6x + 5, and one option of that name was returned
C24_Witness ==
    /\ QuadraticAtRoot
    /\ \A cands \in {Candidates} :
           /\ \E i \in DOMAIN cands : cands[i].id = RuleNm.complete_square_auto
           /\ \E i \in DOMAIN cands : cands[i].id = RuleNm.complete_square \o RuleNm.fwd
    /\ Cardinality(NamedCompleteSquare(response.options)) = 1

\* Well-formed XML, as far as markup without comments, declarations and
\* character data sections goes: one root element, tags that nest, names
\* that are names, and no < or bare & in the text between tags
IsNameStart(c) == c \in 65..90 \/ c \in 97..122 \/ c \in {95, 58}
IsNameChar(c) == IsNameStart(c) \/ c \in 48..57 \/ c \in {45, 46}
IsName(str) == str # <<>> /\ IsNameStart(str[1]) /\ \A i \in DOMAIN str : IsNameChar(str[i])
NextOf(str, cs, i) ==
    IF \E j \in i..Len(str) : str[j] \in cs
        THEN CHOOSE j \in i..Len(str) : str[j] \in cs /\ \A k \in i..(j - 1) : str[k] \notin cs
        ELSE Len(str) + 1
TagName(inside) == SubSeq(inside, 1, NextOf(inside, {32, 47}, 1) - 1)
AttributesOf(inside) == SubSeq(inside, NextOf(inside, {32, 47}, 1), Len(inside))
QuotesPair(str) == Cardinality({ i \in DOMAIN str : str[i] = 34 }) % 2 = 0
IsEntity(str) == str # <<>> /\ \A i \in DOMAIN str : str[i] \in 97..122 \/ str[i] \in 48..57 \/ str[i] = 35

RECURSIVE ScanXml(_, _, _, _)
ScanXml(str, i, open, rooted) ==
    IF i > Len(str) THEN open = <<>> /\ rooted
    ELSE IF str[i] = 60
        THEN LET j == NextOf(str, {62}, i)
                 inside == SubSeq(str, i + 1, j - 1)
             IN  /\ j <= Len(str)
                 /\ inside # <<>>
                 /\ \A k \in DOMAIN inside : inside[k] # 60
                 /\ IF inside[1] = 47
                        THEN /\ open # <<>>
                             /\ Tail(inside) = open[Len(open)]
                             /\ ScanXml(str, j + 1, SubSeq(open, 1, Len(open) - 1), rooted)
                        ELSE /\ IsName(TagName(inside))
                             /\ QuotesPair(AttributesOf(inside))
                             /\ ~(open = <<>> /\ rooted)
                             /\ ScanXml(str, j + 1,
                                        IF inside[Len(inside)] = 47 THEN open
                                        ELSE Append(open, TagName(inside)),
                                        TRUE)
    ELSE IF str[i] = 38
        THEN LET j == NextOf(str, {59}, i)
             IN  /\ j <= Len(str)
                 /\ IsEntity(SubSeq(str, i + 1, j - 1))
                 /\ open # <<>>
                 /\ ScanXml(str, j + 1, open, rooted)
    ELSE LET k == NextOf(str, {60, 38}, i)
         IN  /\ open # <<>> \/ \A n \in i..(k - 1) : IsSpace(str[n])
             /\ ScanXml(str, k, open, rooted)

WellFormed(str) == ScanXml(str, 1, <<>>, FALSE)

(* C25: every option of every response carries structural and              *)
(* presentational markup that is well-formed, that is, parses as XML:      *)
(* whatever the replacement is, identifiers whose names need escaping and  *)
(* the derivative path with its hand-written structural printer included.  *)
C25_MarkupWellFormed ==
    (Served /\ response.status = 200) =>
        \A i \in DOMAIN response.options :
            /\ WellFormed(response.options[i].replacementContentMathML)
            /\ WellFormed(response.options[i].replacementPresentationMathML)

\* How often a text occurs in a text, and how many powers, and powers of a
\* sum, an expression holds
Occurrences(str, sub) == Cardinality({ i \in DOMAIN str : OccursAt(str, sub, i) })
RECURSIVE TotalOf(_)
TotalOf(ns) == IF ns = <<>> THEN 0 ELSE Head(ns) + TotalOf(Tail(ns))
RECURSIVE Powers(_, _)
Powers(e, of_sums) ==
    IF IsAtom(e) THEN 0
    ELSE (IF e.h = "Pow" /\ (~of_sums \/ e.args[1].h = "Add") THEN 1 ELSE 0)
         + TotalOf([i \in DOMAIN e.args |-> Powers(e.args[i], of_sums)])

WrappedBase == Xml.msup \o Xml.mrow \o Xml.lpar
WrappedTwice == Xml.lpar \o Xml.mrow \o Xml.lpar

CompositeX(r, pattern) ==
    \A m \in {sp_match(gen_in.expr, pattern)} :
        /\ m # None
        /\ RuleNm.x \in DOMAIN r.wilds
        /\ RuleNm.x \in DOMAIN m.map
        /\ m.map[RuleNm.x].h \notin {"Symbol", "Wild"}

\* The options of the catalog for the target of the call under way
CatalogOptions(rules) ==
    _generate_options_from_loaded_rules(rules, gen_in.expr, gen_in.assumptions)

(* C27: for a rule named complete_square, a direction whose pattern        *)
(* matches with the wildcard x bound to anything but a plain variable      *)
(* gives no option, and the options of the catalog are those of the        *)
(* catalog without that direction of the rule: the other direction of the  *)
(* rule and every other rule are processed as before.                      *)
C27_SquareGuardSkipsOneDirection ==
    Called =>
        \A k \in DOMAIN LOADED_RULES :
            \A r \in {LOADED_RULES[k]} :
                r.name = RuleNm.complete_square =>
                    /\ CompositeX(r, r.left_pattern) =>
                           /\ Forward(r, OfRule(r)) = {}
                           /\ CatalogOptions(LOADED_RULES)
                                  = CatalogOptions(WithoutForward(LOADED_RULES, k))
                    /\ CompositeX(r, r.right_pattern) =>
                           /\ Reverse(r, OfRule(r)) = {}
                           /\ CatalogOptions(LOADED_RULES)
                                  = CatalogOptions(WithoutReverse(LOADED_RULES, k))

\* x of a rule named complete_square matched a composite expression in one
\* direction, the other direction of the rule gave an option, and so did
\* another rule
C27_Witness ==
    /\ Called
    /\ \E k \in DOMAIN LOADED_RULES :
           \A r \in {LOADED_RULES[k]} :
               /\ r.name = RuleNm.complete_square
               /\ \/ CompositeX(r, r.left_pattern) /\ Reverse(r, OfRule(r)) # {}
                  \/ CompositeX(r, r.right_pattern) /\ Forward(r, OfRule(r)) # {}
               /\ \E i \in DOMAIN gen_out : gen_out[i].ruleName # RuleNm.complete_square

\* Of a set of free variables: the one named x, the one the generator is to
\* work in, and the completed form of a quadratic with given coefficients
NamedX(free) == { v \in free : v.name = Nm.x }
Preferred(free) ==
    IF NamedX(free) # {} THEN CHOOSE v \in NamedX(free) : TRUE
    ELSE CHOOSE v \in free : \A w \in free : w = v \/ StrLess(v.name, w.name)
IsQuadratic(p) == p.ok /\ degree(p.val) = 2

(* C28: the complete-the-square generator works in the free variable named *)
(* x when the target has one and otherwise in the free variable whose name *)
(* comes first; it gives no option when the target has no free variable,   *)
(* is not of degree 2 in that variable, or completes to an expression      *)
(* structurally identical to it, and an option it gives is the completed   *)
(* form in that variable.                                                  *)
C28_SquareVariableChoice ==
    Called =>
        \A auto \in {complete_square_options(gen_in.expr)}, free \in {free_symbols(gen_in.expr)} :
            /\ free = {} => auto = <<>>
            /\ free # {} =>
                   \A v \in {Preferred(free)} :
                       \A p \in {sp_Poly(gen_in.expr, v)} :
                           /\ square_variable(gen_in.expr) = v
                           /\ ~IsQuadratic(p) => auto = <<>>
                           /\ IsQuadratic(p) =>
                                  \A cs \in {all_coeffs(p.val)} :
                                      \A done \in {sp_simplify(completed_square(cs[1], cs[2], cs[3], v))} :
                                          /\ sp_srepr(done) = sp_srepr(gen_in.expr) => auto = <<>>
                                          /\ auto # <<>> =>
                                                 /\ Len(auto) = 1
                                                 /\ auto[1].id = RuleNm.complete_square_auto
                                                 /\ auto[1].replacement = done
            /\ (\E i \in DOMAIN gen_out : gen_out[i].id = RuleNm.complete_square_auto)
                   => auto # <<>>

\* A target in which x is free beside a variable whose name comes before x:
\* the generator worked in x
C28_Witness ==
    /\ Called
    /\ \A free \in {free_symbols(gen_in.expr)} :
           /\ NamedX(free) # {}
           /\ \E v \in free : StrLess(v.name, Nm.x)
           /\ square_variable(gen_in.expr).name = Nm.x

(* C29: the ids of the options of one response are pairwise distinct,      *)
(* whatever catalog was loaded and whatever the target.                    *)
C29_OptionIdsDistinct ==
    /\ (Served /\ response.status = 200) =>
           \A i, j \in DOMAIN response.options :
               response.options[i].id = response.options[j].id => i = j
    /\ Called =>
           \A i, j \in DOMAIN gen_out : gen_out[i].id = gen_out[j].id => i = j

\* The nodes of a tree that stand for a subexpression of the markup: the
\* factor list of a product, the sum-shaped argument of a times call, is
\* none, its factors are
RECURSIVE RealNodes(_)
RealNodes(t) ==
    {t} \cup
    ( IF t.kind = "power" THEN RealNodes(t.base) \cup RealNodes(t.exponent)
      ELSE IF t.kind = "add" THEN UNION { RealNodes(t.terms[i]) : i \in DOMAIN t.terms }
      ELSE IF t.kind = "call" /\ t.func = Fn.times /\ t.arg.kind = "add"
          THEN UNION { RealNodes(t.arg.terms[i]) : i \in DOMAIN t.arg.terms }
      ELSE IF t.kind = "call" THEN RealNodes(t.arg)
      ELSE IF t.kind = "diff" THEN RealNodes(t.var) \cup RealNodes(t.arg)
      ELSE {} )

(* C30: the node a request selects is a subexpression of the markup: the   *)
(* expression whose options are returned is the conversion of the root or  *)
(* of a node below it that is not the factor list of a product, so that a  *)
(* product is never answered as the sum of its factors.                    *)
C30_SelectedNodeIsSubexpression ==
    (Readable /\ response.status = 200 /\ gen_in # None) =>
        \A t \in {_with_ids(Parsed.val)} :
            \E n \in RealNodes(t) :
                /\ request.selectedNodeId \in NodeIds(t) => n.id = request.selectedNodeId
                /\ gen_in.expr = _ast_to_sympy(n)

====
